---------------------------- MODULE Spec2Model ----------------------------
(***************************************************************************)
(* TinyG2 config_app.cpp: the application part of the configuration       *)
(* system.  The module models                                             *)
(*   - cfgArray, the parameter table, for every build configuration the   *)
(*     preprocessor conditionals of the table distinguish,                *)
(*   - the index boundaries derived from it and the index classifiers,    *)
(*   - set_flu / preprocess_float, the two units conversions, on IEEE-754 *)
(*     single precision values,                                           *)
(*   - nv_group_is_prefixed and the uber-group handlers (_do_group_list,  *)
(*     _do_motors, _do_axes, _do_offsets, _do_inputs, _do_all), statement *)
(*     by statement,                                                      *)
(*   - the communication setters of the AVR build (set_ec, set_ee,        *)
(*     set_ex, set_baud) and set_baud_callback.                           *)
(* Strings the code compares character by character (group and token)    *)
(* are sequences of one-character strings.                                *)
(***************************************************************************)
EXTENDS Integers, Sequences, FiniteSets, TLC

VARIABLES
    build,      \* the compile-time configuration of the firmware image
    units,      \* cm_get_units_mode(MODEL): "INCHES" or "MILLIMETERS"
    nv,         \* the nvObj_t a handler is passed
    mem,        \* the float cells the table's targets point at, once written
    pc,         \* where the command loop is
    ret,        \* what the last function returned
    hist,       \* the last operation and what it was given
    sets,       \* the set commands taken so far
    stack,      \* the calls of the uber-group handlers in progress, innermost last
    nvl,        \* the nvObj list: the parent object and the children fetched after it
    log,        \* what the uber-group handlers did, in order
    cfg,        \* the communication settings of cfgParameters: the bytes the table points at
    xio         \* the xio singleton and the USB device behind it

vars == <<build, units, nv, mem, pc, ret, hist, sets, stack, nvl, log, cfg, xio>>

(***************************************************************************)
(* Build configurations                                                    *)
(***************************************************************************)
\* The macros the #if / #ifdef lines of config_app.cpp test.  __ARM and __AVR
\* are the two platforms (line 580: #ifdef __ARM ... #else); ARM = FALSE is __AVR.
Builds ==
    [ MOTORS : 2..6,
      D_IN_CHANNELS : {8, 9},
      USER_DATA : BOOLEAN,
      DIAGNOSTIC_PARAMETERS : BOOLEAN,
      ARM : BOOLEAN,
      TEXT_MODE : BOOLEAN,
      HELP_SCREENS : BOOLEAN ]

(***************************************************************************)
(* cfgArray                                                                *)
(***************************************************************************)
\* One cfgItem_t: { group, token, flags, precision, print, get, set, target, default }.
\* The print function and the default value (a settings macro) are left out.
E(g, t, f, p, get, set, tgt) ==
    [ group |-> g, token |-> t, flags |-> f, precision |-> p,
      get |-> get, set |-> set, target |-> tgt ]

\* cfgArray lines 118-124: firmware identity items of group sys
cfgIdentity ==
    <<
        E(<<"s","y","s">>, <<"f","b">>, "_fipn", 2, "get_flt", "set_nul", "cs.fw_build"),
        E(<<"s","y","s">>, <<"f","b","s">>, "_fn", 2, "hw_get_fbs", "set_nul", "cs.null"),
        E(<<"s","y","s">>, <<"f","v">>, "_fipn", 2, "get_flt", "set_nul", "cs.fw_version"),
        E(<<"s","y","s">>, <<"h","p">>, "_fipn", 0, "get_flt", "set_flt", "cs.hw_platform"),
        E(<<"s","y","s">>, <<"h","v">>, "_fipn", 0, "get_flt", "hw_set_hv", "cs.hw_version"),
        E(<<"s","y","s">>, <<"i","d">>, "_fn", 0, "hw_get_id", "set_nul", "cs.null")
    >>

\* cfgArray lines 127-145: dynamic model attributes for reporting
cfgModelState ==
    <<
        E(<<>>, <<"s","t","a","t">>, "_f0", 0, "cm_get_stat", "set_nul", "cs.null"),
        E(<<>>, <<"n">>, "_fi", 0, "cm_get_mline", "set_int", "cm.gm.linenum"),
        E(<<>>, <<"l","i","n","e">>, "_fi", 0, "cm_get_line", "set_int", "cm.gm.linenum"),
        E(<<>>, <<"v","e","l">>, "_f0", 2, "cm_get_vel", "set_nul", "cs.null"),
        E(<<>>, <<"f","e","e","d">>, "_f0", 2, "cm_get_feed", "set_nul", "cs.null"),
        E(<<>>, <<"m","a","c","s">>, "_f0", 0, "cm_get_macs", "set_nul", "cs.null"),
        E(<<>>, <<"c","y","c","s">>, "_f0", 0, "cm_get_cycs", "set_nul", "cs.null"),
        E(<<>>, <<"m","o","t","s">>, "_f0", 0, "cm_get_mots", "set_nul", "cs.null"),
        E(<<>>, <<"h","o","l","d">>, "_f0", 0, "cm_get_hold", "set_nul", "cs.null"),
        E(<<>>, <<"u","n","i","t">>, "_f0", 0, "cm_get_unit", "set_nul", "cs.null"),
        E(<<>>, <<"c","o","o","r">>, "_f0", 0, "cm_get_coor", "set_nul", "cs.null"),
        E(<<>>, <<"m","o","m","o">>, "_f0", 0, "cm_get_momo", "set_nul", "cs.null"),
        E(<<>>, <<"p","l","a","n">>, "_f0", 0, "cm_get_plan", "set_nul", "cs.null"),
        E(<<>>, <<"p","a","t","h">>, "_f0", 0, "cm_get_path", "set_nul", "cs.null"),
        E(<<>>, <<"d","i","s","t">>, "_f0", 0, "cm_get_dist", "set_nul", "cs.null"),
        E(<<>>, <<"a","d","m","o">>, "_f0", 0, "cm_get_admo", "set_nul", "cs.null"),
        E(<<>>, <<"f","r","m","o">>, "_f0", 0, "cm_get_frmo", "set_nul", "cs.null"),
        E(<<>>, <<"t","o","o","l">>, "_f0", 0, "cm_get_toolv", "set_nul", "cs.null"),
        E(<<>>, <<"g","9","2","e">>, "_f0", 0, "get_ui8", "set_nul", "cm.gmx.origin_offset_enable")
    >>

\* cfgArray lines 147-188: mpo, pos, ofs, hom, prb and jog items
cfgPositions ==
    <<
        E(<<"m","p","o">>, <<"m","p","o","x">>, "_f0", 3, "cm_get_mpo", "set_nul", "cs.null"),
        E(<<"m","p","o">>, <<"m","p","o","y">>, "_f0", 3, "cm_get_mpo", "set_nul", "cs.null"),
        E(<<"m","p","o">>, <<"m","p","o","z">>, "_f0", 3, "cm_get_mpo", "set_nul", "cs.null"),
        E(<<"m","p","o">>, <<"m","p","o","a">>, "_f0", 3, "cm_get_mpo", "set_nul", "cs.null"),
        E(<<"m","p","o">>, <<"m","p","o","b">>, "_f0", 3, "cm_get_mpo", "set_nul", "cs.null"),
        E(<<"m","p","o">>, <<"m","p","o","c">>, "_f0", 3, "cm_get_mpo", "set_nul", "cs.null"),
        E(<<"p","o","s">>, <<"p","o","s","x">>, "_f0", 3, "cm_get_pos", "set_nul", "cs.null"),
        E(<<"p","o","s">>, <<"p","o","s","y">>, "_f0", 3, "cm_get_pos", "set_nul", "cs.null"),
        E(<<"p","o","s">>, <<"p","o","s","z">>, "_f0", 3, "cm_get_pos", "set_nul", "cs.null"),
        E(<<"p","o","s">>, <<"p","o","s","a">>, "_f0", 3, "cm_get_pos", "set_nul", "cs.null"),
        E(<<"p","o","s">>, <<"p","o","s","b">>, "_f0", 3, "cm_get_pos", "set_nul", "cs.null"),
        E(<<"p","o","s">>, <<"p","o","s","c">>, "_f0", 3, "cm_get_pos", "set_nul", "cs.null"),
        E(<<"o","f","s">>, <<"o","f","s","x">>, "_f0", 3, "cm_get_ofs", "set_nul", "cs.null"),
        E(<<"o","f","s">>, <<"o","f","s","y">>, "_f0", 3, "cm_get_ofs", "set_nul", "cs.null"),
        E(<<"o","f","s">>, <<"o","f","s","z">>, "_f0", 3, "cm_get_ofs", "set_nul", "cs.null"),
        E(<<"o","f","s">>, <<"o","f","s","a">>, "_f0", 3, "cm_get_ofs", "set_nul", "cs.null"),
        E(<<"o","f","s">>, <<"o","f","s","b">>, "_f0", 3, "cm_get_ofs", "set_nul", "cs.null"),
        E(<<"o","f","s">>, <<"o","f","s","c">>, "_f0", 3, "cm_get_ofs", "set_nul", "cs.null"),
        E(<<"h","o","m">>, <<"h","o","m","e">>, "_f0", 0, "cm_get_home", "set_01", "cm.homing_state"),
        E(<<"h","o","m">>, <<"h","o","m","x">>, "_f0", 0, "get_ui8", "set_01", "cm.homed[AXIS_X]"),
        E(<<"h","o","m">>, <<"h","o","m","y">>, "_f0", 0, "get_ui8", "set_01", "cm.homed[AXIS_Y]"),
        E(<<"h","o","m">>, <<"h","o","m","z">>, "_f0", 0, "get_ui8", "set_01", "cm.homed[AXIS_Z]"),
        E(<<"h","o","m">>, <<"h","o","m","a">>, "_f0", 0, "get_ui8", "set_01", "cm.homed[AXIS_A]"),
        E(<<"h","o","m">>, <<"h","o","m","b">>, "_f0", 0, "get_ui8", "set_01", "cm.homed[AXIS_B]"),
        E(<<"h","o","m">>, <<"h","o","m","c">>, "_f0", 0, "get_ui8", "set_01", "cm.homed[AXIS_C]"),
        E(<<"p","r","b">>, <<"p","r","b","e">>, "_f0", 0, "get_ui8", "set_nul", "cm.probe_state"),
        E(<<"p","r","b">>, <<"p","r","b","x">>, "_f0", 3, "get_flt", "set_nul", "cm.probe_results[AXIS_X]"),
        E(<<"p","r","b">>, <<"p","r","b","y">>, "_f0", 3, "get_flt", "set_nul", "cm.probe_results[AXIS_Y]"),
        E(<<"p","r","b">>, <<"p","r","b","z">>, "_f0", 3, "get_flt", "set_nul", "cm.probe_results[AXIS_Z]"),
        E(<<"p","r","b">>, <<"p","r","b","a">>, "_f0", 3, "get_flt", "set_nul", "cm.probe_results[AXIS_A]"),
        E(<<"p","r","b">>, <<"p","r","b","b">>, "_f0", 3, "get_flt", "set_nul", "cm.probe_results[AXIS_B]"),
        E(<<"p","r","b">>, <<"p","r","b","c">>, "_f0", 3, "get_flt", "set_nul", "cm.probe_results[AXIS_C]"),
        E(<<"j","o","g">>, <<"j","o","g","x">>, "_f0", 0, "get_nul", "cm_run_jogx", "cm.jogging_dest"),
        E(<<"j","o","g">>, <<"j","o","g","y">>, "_f0", 0, "get_nul", "cm_run_jogy", "cm.jogging_dest"),
        E(<<"j","o","g">>, <<"j","o","g","z">>, "_f0", 0, "get_nul", "cm_run_jogz", "cm.jogging_dest"),
        E(<<"j","o","g">>, <<"j","o","g","a">>, "_f0", 0, "get_nul", "cm_run_joga", "cm.jogging_dest")
    >>

\* cfgArray lines 203-266: motor parameters
cfgMotors(b) ==
    <<
        E(<<"1">>, <<"1","m","a">>, "_fip", 0, "get_ui8", "set_ui8", "st_cfg.mot[MOTOR_1].motor_map"),
        E(<<"1">>, <<"1","s","a">>, "_fip", 3, "get_flt", "st_set_sa", "st_cfg.mot[MOTOR_1].step_angle"),
        E(<<"1">>, <<"1","t","r">>, "_fipc", 4, "get_flt", "st_set_tr", "st_cfg.mot[MOTOR_1].travel_rev"),
        E(<<"1">>, <<"1","m","i">>, "_fip", 0, "get_ui8", "st_set_mi", "st_cfg.mot[MOTOR_1].microsteps"),
        E(<<"1">>, <<"1","p","o">>, "_fip", 0, "get_ui8", "set_01", "st_cfg.mot[MOTOR_1].polarity"),
        E(<<"1">>, <<"1","p","m">>, "_fip", 0, "get_ui8", "st_set_pm", "st_cfg.mot[MOTOR_1].power_mode")
    >>
    \o (IF b.ARM THEN <<
        E(<<"1">>, <<"1","p","l">>, "_fip", 3, "get_flt", "st_set_pl", "st_cfg.mot[MOTOR_1].power_level")
    >> ELSE <<>>)
    \o (IF b.MOTORS >= 2 THEN <<
        E(<<"2">>, <<"2","m","a">>, "_fip", 0, "get_ui8", "set_ui8", "st_cfg.mot[MOTOR_2].motor_map"),
        E(<<"2">>, <<"2","s","a">>, "_fip", 3, "get_flt", "st_set_sa", "st_cfg.mot[MOTOR_2].step_angle"),
        E(<<"2">>, <<"2","t","r">>, "_fipc", 4, "get_flt", "st_set_tr", "st_cfg.mot[MOTOR_2].travel_rev"),
        E(<<"2">>, <<"2","m","i">>, "_fip", 0, "get_ui8", "st_set_mi", "st_cfg.mot[MOTOR_2].microsteps"),
        E(<<"2">>, <<"2","p","o">>, "_fip", 0, "get_ui8", "set_01", "st_cfg.mot[MOTOR_2].polarity"),
        E(<<"2">>, <<"2","p","m">>, "_fip", 0, "get_ui8", "st_set_pm", "st_cfg.mot[MOTOR_2].power_mode")
    >> ELSE <<>>)
    \o (IF b.MOTORS >= 2 /\ b.ARM THEN <<
        E(<<"2">>, <<"2","p","l">>, "_fip", 3, "get_flt", "st_set_pl", "st_cfg.mot[MOTOR_2].power_level")
    >> ELSE <<>>)
    \o (IF b.MOTORS >= 3 THEN <<
        E(<<"3">>, <<"3","m","a">>, "_fip", 0, "get_ui8", "set_ui8", "st_cfg.mot[MOTOR_3].motor_map"),
        E(<<"3">>, <<"3","s","a">>, "_fip", 3, "get_flt", "st_set_sa", "st_cfg.mot[MOTOR_3].step_angle"),
        E(<<"3">>, <<"3","t","r">>, "_fipc", 4, "get_flt", "st_set_tr", "st_cfg.mot[MOTOR_3].travel_rev"),
        E(<<"3">>, <<"3","m","i">>, "_fip", 0, "get_ui8", "st_set_mi", "st_cfg.mot[MOTOR_3].microsteps"),
        E(<<"3">>, <<"3","p","o">>, "_fip", 0, "get_ui8", "set_01", "st_cfg.mot[MOTOR_3].polarity"),
        E(<<"3">>, <<"3","p","m">>, "_fip", 0, "get_ui8", "st_set_pm", "st_cfg.mot[MOTOR_3].power_mode")
    >> ELSE <<>>)
    \o (IF b.MOTORS >= 3 /\ b.ARM THEN <<
        E(<<"3">>, <<"3","p","l">>, "_fip", 3, "get_flt", "st_set_pl", "st_cfg.mot[MOTOR_3].power_level")
    >> ELSE <<>>)
    \o (IF b.MOTORS >= 4 THEN <<
        E(<<"4">>, <<"4","m","a">>, "_fip", 0, "get_ui8", "set_ui8", "st_cfg.mot[MOTOR_4].motor_map"),
        E(<<"4">>, <<"4","s","a">>, "_fip", 3, "get_flt", "st_set_sa", "st_cfg.mot[MOTOR_4].step_angle"),
        E(<<"4">>, <<"4","t","r">>, "_fipc", 4, "get_flt", "st_set_tr", "st_cfg.mot[MOTOR_4].travel_rev"),
        E(<<"4">>, <<"4","m","i">>, "_fip", 0, "get_ui8", "st_set_mi", "st_cfg.mot[MOTOR_4].microsteps"),
        E(<<"4">>, <<"4","p","o">>, "_fip", 0, "get_ui8", "set_01", "st_cfg.mot[MOTOR_4].polarity"),
        E(<<"4">>, <<"4","p","m">>, "_fip", 0, "get_ui8", "st_set_pm", "st_cfg.mot[MOTOR_4].power_mode")
    >> ELSE <<>>)
    \o (IF b.MOTORS >= 4 /\ b.ARM THEN <<
        E(<<"4">>, <<"4","p","l">>, "_fip", 3, "get_flt", "st_set_pl", "st_cfg.mot[MOTOR_4].power_level")
    >> ELSE <<>>)
    \o (IF b.MOTORS >= 5 THEN <<
        E(<<"5">>, <<"5","m","a">>, "_fip", 0, "get_ui8", "set_ui8", "st_cfg.mot[MOTOR_5].motor_map"),
        E(<<"5">>, <<"5","s","a">>, "_fip", 3, "get_flt", "st_set_sa", "st_cfg.mot[MOTOR_5].step_angle"),
        E(<<"5">>, <<"5","t","r">>, "_fipc", 4, "get_flt", "st_set_tr", "st_cfg.mot[MOTOR_5].travel_rev"),
        E(<<"5">>, <<"5","m","i">>, "_fip", 0, "get_ui8", "st_set_mi", "st_cfg.mot[MOTOR_5].microsteps"),
        E(<<"5">>, <<"5","p","o">>, "_fip", 0, "get_ui8", "set_01", "st_cfg.mot[MOTOR_5].polarity"),
        E(<<"5">>, <<"5","p","m">>, "_fip", 0, "get_ui8", "st_set_pm", "st_cfg.mot[MOTOR_5].power_mode")
    >> ELSE <<>>)
    \o (IF b.MOTORS >= 5 /\ b.ARM THEN <<
        E(<<"5">>, <<"5","p","l">>, "_fip", 3, "get_flt", "st_set_pl", "st_cfg.mot[MOTOR_5].power_level")
    >> ELSE <<>>)
    \o (IF b.MOTORS >= 6 THEN <<
        E(<<"6">>, <<"6","m","a">>, "_fip", 0, "get_ui8", "set_ui8", "st_cfg.mot[MOTOR_6].motor_map"),
        E(<<"6">>, <<"6","s","a">>, "_fip", 3, "get_flt", "st_set_sa", "st_cfg.mot[MOTOR_6].step_angle"),
        E(<<"6">>, <<"6","t","r">>, "_fipc", 4, "get_flt", "st_set_tr", "st_cfg.mot[MOTOR_6].travel_rev"),
        E(<<"6">>, <<"6","m","i">>, "_fip", 0, "get_ui8", "st_set_mi", "st_cfg.mot[MOTOR_6].microsteps"),
        E(<<"6">>, <<"6","p","o">>, "_fip", 0, "get_ui8", "set_01", "st_cfg.mot[MOTOR_6].polarity"),
        E(<<"6">>, <<"6","p","m">>, "_fip", 0, "get_ui8", "st_set_pm", "st_cfg.mot[MOTOR_6].power_mode")
    >> ELSE <<>>)
    \o (IF b.MOTORS >= 6 /\ b.ARM THEN <<
        E(<<"6">>, <<"6","p","l">>, "_fip", 3, "get_flt", "st_set_pl", "st_cfg.mot[MOTOR_6].power_level")
    >> ELSE <<>>)

\* cfgArray lines 268-363: axis parameters
cfgAxes(b) ==
    <<
        E(<<"x">>, <<"x","a","m">>, "_fip", 0, "cm_get_am", "cm_set_am", "cm.a[AXIS_X].axis_mode"),
        E(<<"x">>, <<"x","v","m">>, "_fipc", 0, "get_flt", "cm_set_vm", "cm.a[AXIS_X].velocity_max"),
        E(<<"x">>, <<"x","f","r">>, "_fipc", 0, "get_flt", "cm_set_fr", "cm.a[AXIS_X].feedrate_max"),
        E(<<"x">>, <<"x","t","n">>, "_fipc", 3, "get_flt", "set_flu", "cm.a[AXIS_X].travel_min"),
        E(<<"x">>, <<"x","t","m">>, "_fipc", 3, "get_flt", "set_flu", "cm.a[AXIS_X].travel_max"),
        E(<<"x">>, <<"x","j","m">>, "_fipc", 0, "get_flt", "cm_set_jm", "cm.a[AXIS_X].jerk_max"),
        E(<<"x">>, <<"x","j","h">>, "_fipc", 0, "get_flt", "cm_set_jh", "cm.a[AXIS_X].jerk_high"),
        E(<<"x">>, <<"x","j","d">>, "_fipc", 4, "get_nul", "set_nul", "cs.null"),
        E(<<"x">>, <<"x","h","i">>, "_fip", 0, "get_ui8", "cm_set_hi", "cm.a[AXIS_X].homing_input"),
        E(<<"x">>, <<"x","h","d">>, "_fip", 0, "get_ui8", "set_01", "cm.a[AXIS_X].homing_dir"),
        E(<<"x">>, <<"x","s","v">>, "_fipc", 0, "get_flt", "set_flu", "cm.a[AXIS_X].search_velocity"),
        E(<<"x">>, <<"x","l","v">>, "_fipc", 2, "get_flt", "set_flu", "cm.a[AXIS_X].latch_velocity"),
        E(<<"x">>, <<"x","l","b">>, "_fipc", 3, "get_flt", "set_flu", "cm.a[AXIS_X].latch_backoff"),
        E(<<"x">>, <<"x","z","b">>, "_fipc", 3, "get_flt", "set_flu", "cm.a[AXIS_X].zero_backoff"),
        E(<<"y">>, <<"y","a","m">>, "_fip", 0, "cm_get_am", "cm_set_am", "cm.a[AXIS_Y].axis_mode"),
        E(<<"y">>, <<"y","v","m">>, "_fipc", 0, "get_flt", "cm_set_vm", "cm.a[AXIS_Y].velocity_max"),
        E(<<"y">>, <<"y","f","r">>, "_fipc", 0, "get_flt", "cm_set_fr", "cm.a[AXIS_Y].feedrate_max"),
        E(<<"y">>, <<"y","t","n">>, "_fipc", 3, "get_flt", "set_flu", "cm.a[AXIS_Y].travel_min"),
        E(<<"y">>, <<"y","t","m">>, "_fipc", 3, "get_flt", "set_flu", "cm.a[AXIS_Y].travel_max"),
        E(<<"y">>, <<"y","j","m">>, "_fipc", 0, "get_flt", "cm_set_jm", "cm.a[AXIS_Y].jerk_max"),
        E(<<"y">>, <<"y","j","h">>, "_fipc", 0, "get_flt", "cm_set_jh", "cm.a[AXIS_Y].jerk_high"),
        E(<<"y">>, <<"y","j","d">>, "_fipc", 4, "get_nul", "set_nul", "cs.null"),
        E(<<"y">>, <<"y","h","i">>, "_fip", 0, "get_ui8", "cm_set_hi", "cm.a[AXIS_Y].homing_input"),
        E(<<"y">>, <<"y","h","d">>, "_fip", 0, "get_ui8", "set_01", "cm.a[AXIS_Y].homing_dir"),
        E(<<"y">>, <<"y","s","v">>, "_fipc", 0, "get_flt", "set_flu", "cm.a[AXIS_Y].search_velocity"),
        E(<<"y">>, <<"y","l","v">>, "_fipc", 2, "get_flt", "set_flu", "cm.a[AXIS_Y].latch_velocity"),
        E(<<"y">>, <<"y","l","b">>, "_fipc", 3, "get_flt", "set_flu", "cm.a[AXIS_Y].latch_backoff"),
        E(<<"y">>, <<"y","z","b">>, "_fipc", 3, "get_flt", "set_flu", "cm.a[AXIS_Y].zero_backoff"),
        E(<<"z">>, <<"z","a","m">>, "_fip", 0, "cm_get_am", "cm_set_am", "cm.a[AXIS_Z].axis_mode"),
        E(<<"z">>, <<"z","v","m">>, "_fipc", 0, "get_flt", "cm_set_vm", "cm.a[AXIS_Z].velocity_max"),
        E(<<"z">>, <<"z","f","r">>, "_fipc", 0, "get_flt", "cm_set_fr", "cm.a[AXIS_Z].feedrate_max"),
        E(<<"z">>, <<"z","t","n">>, "_fipc", 3, "get_flt", "set_flu", "cm.a[AXIS_Z].travel_min"),
        E(<<"z">>, <<"z","t","m">>, "_fipc", 3, "get_flt", "set_flu", "cm.a[AXIS_Z].travel_max"),
        E(<<"z">>, <<"z","j","m">>, "_fipc", 0, "get_flt", "cm_set_jm", "cm.a[AXIS_Z].jerk_max"),
        E(<<"z">>, <<"z","j","h">>, "_fipc", 0, "get_flt", "cm_set_jh", "cm.a[AXIS_Z].jerk_high"),
        E(<<"z">>, <<"z","j","d">>, "_fipc", 4, "get_nul", "set_nul", "cs.null"),
        E(<<"z">>, <<"z","h","i">>, "_fip", 0, "get_ui8", "cm_set_hi", "cm.a[AXIS_Z].homing_input"),
        E(<<"z">>, <<"z","h","d">>, "_fip", 0, "get_ui8", "set_01", "cm.a[AXIS_Z].homing_dir"),
        E(<<"z">>, <<"z","s","v">>, "_fipc", 0, "get_flt", "set_flu", "cm.a[AXIS_Z].search_velocity"),
        E(<<"z">>, <<"z","l","v">>, "_fipc", 2, "get_flt", "set_flu", "cm.a[AXIS_Z].latch_velocity"),
        E(<<"z">>, <<"z","l","b">>, "_fipc", 3, "get_flt", "set_flu", "cm.a[AXIS_Z].latch_backoff"),
        E(<<"z">>, <<"z","z","b">>, "_fipc", 3, "get_flt", "set_flu", "cm.a[AXIS_Z].zero_backoff"),
        E(<<"a">>, <<"a","a","m">>, "_fip", 0, "cm_get_am", "cm_set_am", "cm.a[AXIS_A].axis_mode"),
        E(<<"a">>, <<"a","v","m">>, "_fip", 0, "get_flt", "cm_set_vm", "cm.a[AXIS_A].velocity_max"),
        E(<<"a">>, <<"a","f","r">>, "_fip", 0, "get_flt", "cm_set_fr", "cm.a[AXIS_A].feedrate_max"),
        E(<<"a">>, <<"a","t","n">>, "_fip", 3, "get_flt", "set_flt", "cm.a[AXIS_A].travel_min"),
        E(<<"a">>, <<"a","t","m">>, "_fip", 3, "get_flt", "set_flt", "cm.a[AXIS_A].travel_max"),
        E(<<"a">>, <<"a","j","m">>, "_fip", 0, "get_flt", "cm_set_jm", "cm.a[AXIS_A].jerk_max"),
        E(<<"a">>, <<"a","j","h">>, "_fip", 0, "get_flt", "cm_set_jh", "cm.a[AXIS_A].jerk_high"),
        E(<<"a">>, <<"a","j","d">>, "_fipc", 4, "get_nul", "set_nul", "cs.null"),
        E(<<"a">>, <<"a","r","a">>, "_fipc", 3, "get_flt", "set_flt", "cm.a[AXIS_A].radius"),
        E(<<"a">>, <<"a","h","i">>, "_fip", 0, "get_ui8", "cm_set_hi", "cm.a[AXIS_A].homing_input"),
        E(<<"a">>, <<"a","h","d">>, "_fip", 0, "get_ui8", "set_01", "cm.a[AXIS_A].homing_dir"),
        E(<<"a">>, <<"a","s","v">>, "_fip", 0, "get_flt", "set_flt", "cm.a[AXIS_A].search_velocity"),
        E(<<"a">>, <<"a","l","v">>, "_fip", 2, "get_flt", "set_flt", "cm.a[AXIS_A].latch_velocity"),
        E(<<"a">>, <<"a","l","b">>, "_fip", 3, "get_flt", "set_flt", "cm.a[AXIS_A].latch_backoff"),
        E(<<"a">>, <<"a","z","b">>, "_fip", 3, "get_flt", "set_flt", "cm.a[AXIS_A].zero_backoff"),
        E(<<"b">>, <<"b","a","m">>, "_fip", 0, "cm_get_am", "cm_set_am", "cm.a[AXIS_B].axis_mode"),
        E(<<"b">>, <<"b","v","m">>, "_fip", 0, "get_flt", "cm_set_vm", "cm.a[AXIS_B].velocity_max"),
        E(<<"b">>, <<"b","f","r">>, "_fip", 0, "get_flt", "cm_set_fr", "cm.a[AXIS_B].feedrate_max"),
        E(<<"b">>, <<"b","t","n">>, "_fip", 3, "get_flt", "set_flt", "cm.a[AXIS_B].travel_min"),
        E(<<"b">>, <<"b","t","m">>, "_fip", 3, "get_flt", "set_flt", "cm.a[AXIS_B].travel_max"),
        E(<<"b">>, <<"b","j","m">>, "_fip", 0, "get_flt", "cm_set_jm", "cm.a[AXIS_B].jerk_max"),
        E(<<"b">>, <<"b","j","h">>, "_fip", 0, "get_flt", "cm_set_jh", "cm.a[AXIS_B].jerk_high"),
        E(<<"b">>, <<"b","r","a">>, "_fipc", 3, "get_flt", "set_flt", "cm.a[AXIS_B].radius")
    >>
    \o (IF b.ARM THEN <<
        E(<<"b">>, <<"b","h","i">>, "_fip", 0, "get_ui8", "cm_set_hi", "cm.a[AXIS_B].homing_input"),
        E(<<"b">>, <<"b","h","d">>, "_fip", 0, "get_ui8", "set_01", "cm.a[AXIS_B].homing_dir"),
        E(<<"b">>, <<"b","s","v">>, "_fip", 0, "get_flt", "set_flt", "cm.a[AXIS_B].search_velocity"),
        E(<<"b">>, <<"b","l","v">>, "_fip", 2, "get_flt", "set_flt", "cm.a[AXIS_B].latch_velocity"),
        E(<<"b">>, <<"b","l","b">>, "_fip", 3, "get_flt", "set_flt", "cm.a[AXIS_B].latch_backoff"),
        E(<<"b">>, <<"b","z","b">>, "_fip", 3, "get_flt", "set_flt", "cm.a[AXIS_B].zero_backoff")
    >> ELSE <<>>)
    \o <<
        E(<<"c">>, <<"c","a","m">>, "_fip", 0, "cm_get_am", "cm_set_am", "cm.a[AXIS_C].axis_mode"),
        E(<<"c">>, <<"c","v","m">>, "_fip", 0, "get_flt", "cm_set_vm", "cm.a[AXIS_C].velocity_max"),
        E(<<"c">>, <<"c","f","r">>, "_fip", 0, "get_flt", "cm_set_fr", "cm.a[AXIS_C].feedrate_max"),
        E(<<"c">>, <<"c","t","n">>, "_fip", 3, "get_flt", "set_flt", "cm.a[AXIS_C].travel_min"),
        E(<<"c">>, <<"c","t","m">>, "_fip", 3, "get_flt", "set_flt", "cm.a[AXIS_C].travel_max"),
        E(<<"c">>, <<"c","j","m">>, "_fip", 0, "get_flt", "cm_set_jm", "cm.a[AXIS_C].jerk_max"),
        E(<<"c">>, <<"c","j","h">>, "_fip", 0, "get_flt", "cm_set_jh", "cm.a[AXIS_C].jerk_high"),
        E(<<"c">>, <<"c","r","a">>, "_fipc", 3, "get_flt", "set_flt", "cm.a[AXIS_C].radius")
    >>
    \o (IF b.ARM THEN <<
        E(<<"c">>, <<"c","h","i">>, "_fip", 0, "get_ui8", "cm_set_hi", "cm.a[AXIS_C].homing_input"),
        E(<<"c">>, <<"c","h","d">>, "_fip", 0, "get_ui8", "set_01", "cm.a[AXIS_C].homing_dir"),
        E(<<"c">>, <<"c","s","v">>, "_fip", 0, "get_flt", "set_flt", "cm.a[AXIS_C].search_velocity"),
        E(<<"c">>, <<"c","l","v">>, "_fip", 2, "get_flt", "set_flt", "cm.a[AXIS_C].latch_velocity"),
        E(<<"c">>, <<"c","l","b">>, "_fip", 3, "get_flt", "set_flt", "cm.a[AXIS_C].latch_backoff"),
        E(<<"c">>, <<"c","z","b">>, "_fip", 3, "get_flt", "set_flt", "cm.a[AXIS_C].zero_backoff")
    >> ELSE <<>>)

\* cfgArray lines 366-414: digital input configs and state readers
cfgInputs(b) ==
    <<
        E(<<"d","i","1">>, <<"d","i","1","m","o">>, "_fip", 0, "get_int8", "io_set_mo", "d_in[0].mode"),
        E(<<"d","i","1">>, <<"d","i","1","a","c">>, "_fip", 0, "get_ui8", "io_set_ac", "d_in[0].action"),
        E(<<"d","i","1">>, <<"d","i","1","f","n">>, "_fip", 0, "get_ui8", "io_set_fn", "d_in[0].function"),
        E(<<"d","i","2">>, <<"d","i","2","m","o">>, "_fip", 0, "get_int8", "io_set_mo", "d_in[1].mode"),
        E(<<"d","i","2">>, <<"d","i","2","a","c">>, "_fip", 0, "get_ui8", "io_set_ac", "d_in[1].action"),
        E(<<"d","i","2">>, <<"d","i","2","f","n">>, "_fip", 0, "get_ui8", "io_set_fn", "d_in[1].function"),
        E(<<"d","i","3">>, <<"d","i","3","m","o">>, "_fip", 0, "get_int8", "io_set_mo", "d_in[2].mode"),
        E(<<"d","i","3">>, <<"d","i","3","a","c">>, "_fip", 0, "get_ui8", "io_set_ac", "d_in[2].action"),
        E(<<"d","i","3">>, <<"d","i","3","f","n">>, "_fip", 0, "get_ui8", "io_set_fn", "d_in[2].function"),
        E(<<"d","i","4">>, <<"d","i","4","m","o">>, "_fip", 0, "get_int8", "io_set_mo", "d_in[3].mode"),
        E(<<"d","i","4">>, <<"d","i","4","a","c">>, "_fip", 0, "get_ui8", "io_set_ac", "d_in[3].action"),
        E(<<"d","i","4">>, <<"d","i","4","f","n">>, "_fip", 0, "get_ui8", "io_set_fn", "d_in[3].function"),
        E(<<"d","i","5">>, <<"d","i","5","m","o">>, "_fip", 0, "get_int8", "io_set_mo", "d_in[4].mode"),
        E(<<"d","i","5">>, <<"d","i","5","a","c">>, "_fip", 0, "get_ui8", "io_set_ac", "d_in[4].action"),
        E(<<"d","i","5">>, <<"d","i","5","f","n">>, "_fip", 0, "get_ui8", "io_set_fn", "d_in[4].function"),
        E(<<"d","i","6">>, <<"d","i","6","m","o">>, "_fip", 0, "get_int8", "io_set_mo", "d_in[5].mode"),
        E(<<"d","i","6">>, <<"d","i","6","a","c">>, "_fip", 0, "get_ui8", "io_set_ac", "d_in[5].action"),
        E(<<"d","i","6">>, <<"d","i","6","f","n">>, "_fip", 0, "get_ui8", "io_set_fn", "d_in[5].function"),
        E(<<"d","i","7">>, <<"d","i","7","m","o">>, "_fip", 0, "get_int8", "io_set_mo", "d_in[6].mode"),
        E(<<"d","i","7">>, <<"d","i","7","a","c">>, "_fip", 0, "get_ui8", "io_set_ac", "d_in[6].action"),
        E(<<"d","i","7">>, <<"d","i","7","f","n">>, "_fip", 0, "get_ui8", "io_set_fn", "d_in[6].function"),
        E(<<"d","i","8">>, <<"d","i","8","m","o">>, "_fip", 0, "get_int8", "io_set_mo", "d_in[7].mode"),
        E(<<"d","i","8">>, <<"d","i","8","a","c">>, "_fip", 0, "get_ui8", "io_set_ac", "d_in[7].action"),
        E(<<"d","i","8">>, <<"d","i","8","f","n">>, "_fip", 0, "get_ui8", "io_set_fn", "d_in[7].function")
    >>
    \o (IF b.D_IN_CHANNELS >= 9 THEN <<
        E(<<"d","i","9">>, <<"d","i","9","m","o">>, "_fip", 0, "get_int8", "io_set_mo", "d_in[8].mode"),
        E(<<"d","i","9">>, <<"d","i","9","a","c">>, "_fip", 0, "get_ui8", "io_set_ac", "d_in[8].action"),
        E(<<"d","i","9">>, <<"d","i","9","f","n">>, "_fip", 0, "get_ui8", "io_set_fn", "d_in[8].function")
    >> ELSE <<>>)
    \o <<
        E(<<"i","n">>, <<"i","n","1">>, "_f0", 0, "io_get_input", "set_nul", "cs.null"),
        E(<<"i","n">>, <<"i","n","2">>, "_f0", 0, "io_get_input", "set_nul", "cs.null"),
        E(<<"i","n">>, <<"i","n","3">>, "_f0", 0, "io_get_input", "set_nul", "cs.null"),
        E(<<"i","n">>, <<"i","n","4">>, "_f0", 0, "io_get_input", "set_nul", "cs.null"),
        E(<<"i","n">>, <<"i","n","5">>, "_f0", 0, "io_get_input", "set_nul", "cs.null"),
        E(<<"i","n">>, <<"i","n","6">>, "_f0", 0, "io_get_input", "set_nul", "cs.null"),
        E(<<"i","n">>, <<"i","n","7">>, "_f0", 0, "io_get_input", "set_nul", "cs.null"),
        E(<<"i","n">>, <<"i","n","8">>, "_f0", 0, "io_get_input", "set_nul", "cs.null")
    >>
    \o (IF b.D_IN_CHANNELS >= 9 THEN <<
        E(<<"i","n">>, <<"i","n","9">>, "_f0", 0, "io_get_input", "set_nul", "cs.null")
    >> ELSE <<>>)

\* cfgArray lines 417-426: PWM settings
cfgPwm ==
    <<
        E(<<"p","1">>, <<"p","1","f","r","q">>, "_fip", 0, "get_flt", "pwm_set_pwm", "pwm.c[PWM_1].frequency"),
        E(<<"p","1">>, <<"p","1","c","s","l">>, "_fip", 0, "get_flt", "pwm_set_pwm", "pwm.c[PWM_1].cw_speed_lo"),
        E(<<"p","1">>, <<"p","1","c","s","h">>, "_fip", 0, "get_flt", "pwm_set_pwm", "pwm.c[PWM_1].cw_speed_hi"),
        E(<<"p","1">>, <<"p","1","c","p","l">>, "_fip", 3, "get_flt", "pwm_set_pwm", "pwm.c[PWM_1].cw_phase_lo"),
        E(<<"p","1">>, <<"p","1","c","p","h">>, "_fip", 3, "get_flt", "pwm_set_pwm", "pwm.c[PWM_1].cw_phase_hi"),
        E(<<"p","1">>, <<"p","1","w","s","l">>, "_fip", 0, "get_flt", "pwm_set_pwm", "pwm.c[PWM_1].ccw_speed_lo"),
        E(<<"p","1">>, <<"p","1","w","s","h">>, "_fip", 0, "get_flt", "pwm_set_pwm", "pwm.c[PWM_1].ccw_speed_hi"),
        E(<<"p","1">>, <<"p","1","w","p","l">>, "_fip", 3, "get_flt", "pwm_set_pwm", "pwm.c[PWM_1].ccw_phase_lo"),
        E(<<"p","1">>, <<"p","1","w","p","h">>, "_fip", 3, "get_flt", "pwm_set_pwm", "pwm.c[PWM_1].ccw_phase_hi"),
        E(<<"p","1">>, <<"p","1","p","o","f">>, "_fip", 3, "get_flt", "pwm_set_pwm", "pwm.c[PWM_1].phase_off")
    >>

\* cfgArray lines 429-491: coordinate system offsets and stored positions
cfgOffsets ==
    <<
        E(<<"g","5","4">>, <<"g","5","4","x">>, "_fipc", 3, "get_flt", "set_flu", "cm.offset[G54][AXIS_X]"),
        E(<<"g","5","4">>, <<"g","5","4","y">>, "_fipc", 3, "get_flt", "set_flu", "cm.offset[G54][AXIS_Y]"),
        E(<<"g","5","4">>, <<"g","5","4","z">>, "_fipc", 3, "get_flt", "set_flu", "cm.offset[G54][AXIS_Z]"),
        E(<<"g","5","4">>, <<"g","5","4","a">>, "_fip", 3, "get_flt", "set_flt", "cm.offset[G54][AXIS_A]"),
        E(<<"g","5","4">>, <<"g","5","4","b">>, "_fip", 3, "get_flt", "set_flt", "cm.offset[G54][AXIS_B]"),
        E(<<"g","5","4">>, <<"g","5","4","c">>, "_fip", 3, "get_flt", "set_flt", "cm.offset[G54][AXIS_C]"),
        E(<<"g","5","5">>, <<"g","5","5","x">>, "_fipc", 3, "get_flt", "set_flu", "cm.offset[G55][AXIS_X]"),
        E(<<"g","5","5">>, <<"g","5","5","y">>, "_fipc", 3, "get_flt", "set_flu", "cm.offset[G55][AXIS_Y]"),
        E(<<"g","5","5">>, <<"g","5","5","z">>, "_fipc", 3, "get_flt", "set_flu", "cm.offset[G55][AXIS_Z]"),
        E(<<"g","5","5">>, <<"g","5","5","a">>, "_fip", 3, "get_flt", "set_flt", "cm.offset[G55][AXIS_A]"),
        E(<<"g","5","5">>, <<"g","5","5","b">>, "_fip", 3, "get_flt", "set_flt", "cm.offset[G55][AXIS_B]"),
        E(<<"g","5","5">>, <<"g","5","5","c">>, "_fip", 3, "get_flt", "set_flt", "cm.offset[G55][AXIS_C]"),
        E(<<"g","5","6">>, <<"g","5","6","x">>, "_fipc", 3, "get_flt", "set_flu", "cm.offset[G56][AXIS_X]"),
        E(<<"g","5","6">>, <<"g","5","6","y">>, "_fipc", 3, "get_flt", "set_flu", "cm.offset[G56][AXIS_Y]"),
        E(<<"g","5","6">>, <<"g","5","6","z">>, "_fipc", 3, "get_flt", "set_flu", "cm.offset[G56][AXIS_Z]"),
        E(<<"g","5","6">>, <<"g","5","6","a">>, "_fip", 3, "get_flt", "set_flt", "cm.offset[G56][AXIS_A]"),
        E(<<"g","5","6">>, <<"g","5","6","b">>, "_fip", 3, "get_flt", "set_flt", "cm.offset[G56][AXIS_B]"),
        E(<<"g","5","6">>, <<"g","5","6","c">>, "_fip", 3, "get_flt", "set_flt", "cm.offset[G56][AXIS_C]"),
        E(<<"g","5","7">>, <<"g","5","7","x">>, "_fipc", 3, "get_flt", "set_flu", "cm.offset[G57][AXIS_X]"),
        E(<<"g","5","7">>, <<"g","5","7","y">>, "_fipc", 3, "get_flt", "set_flu", "cm.offset[G57][AXIS_Y]"),
        E(<<"g","5","7">>, <<"g","5","7","z">>, "_fipc", 3, "get_flt", "set_flu", "cm.offset[G57][AXIS_Z]"),
        E(<<"g","5","7">>, <<"g","5","7","a">>, "_fip", 3, "get_flt", "set_flt", "cm.offset[G57][AXIS_A]"),
        E(<<"g","5","7">>, <<"g","5","7","b">>, "_fip", 3, "get_flt", "set_flt", "cm.offset[G57][AXIS_B]"),
        E(<<"g","5","7">>, <<"g","5","7","c">>, "_fip", 3, "get_flt", "set_flt", "cm.offset[G57][AXIS_C]"),
        E(<<"g","5","8">>, <<"g","5","8","x">>, "_fipc", 3, "get_flt", "set_flu", "cm.offset[G58][AXIS_X]"),
        E(<<"g","5","8">>, <<"g","5","8","y">>, "_fipc", 3, "get_flt", "set_flu", "cm.offset[G58][AXIS_Y]"),
        E(<<"g","5","8">>, <<"g","5","8","z">>, "_fipc", 3, "get_flt", "set_flu", "cm.offset[G58][AXIS_Z]"),
        E(<<"g","5","8">>, <<"g","5","8","a">>, "_fip", 3, "get_flt", "set_flt", "cm.offset[G58][AXIS_A]"),
        E(<<"g","5","8">>, <<"g","5","8","b">>, "_fip", 3, "get_flt", "set_flt", "cm.offset[G58][AXIS_B]"),
        E(<<"g","5","8">>, <<"g","5","8","c">>, "_fip", 3, "get_flt", "set_flt", "cm.offset[G58][AXIS_C]"),
        E(<<"g","5","9">>, <<"g","5","9","x">>, "_fipc", 3, "get_flt", "set_flu", "cm.offset[G59][AXIS_X]"),
        E(<<"g","5","9">>, <<"g","5","9","y">>, "_fipc", 3, "get_flt", "set_flu", "cm.offset[G59][AXIS_Y]"),
        E(<<"g","5","9">>, <<"g","5","9","z">>, "_fipc", 3, "get_flt", "set_flu", "cm.offset[G59][AXIS_Z]"),
        E(<<"g","5","9">>, <<"g","5","9","a">>, "_fip", 3, "get_flt", "set_flt", "cm.offset[G59][AXIS_A]"),
        E(<<"g","5","9">>, <<"g","5","9","b">>, "_fip", 3, "get_flt", "set_flt", "cm.offset[G59][AXIS_B]"),
        E(<<"g","5","9">>, <<"g","5","9","c">>, "_fip", 3, "get_flt", "set_flt", "cm.offset[G59][AXIS_C]"),
        E(<<"g","9","2">>, <<"g","9","2","x">>, "_fic", 3, "get_flt", "set_nul", "cm.gmx.origin_offset[AXIS_X]"),
        E(<<"g","9","2">>, <<"g","9","2","y">>, "_fic", 3, "get_flt", "set_nul", "cm.gmx.origin_offset[AXIS_Y]"),
        E(<<"g","9","2">>, <<"g","9","2","z">>, "_fic", 3, "get_flt", "set_nul", "cm.gmx.origin_offset[AXIS_Z]"),
        E(<<"g","9","2">>, <<"g","9","2","a">>, "_fi", 3, "get_flt", "set_nul", "cm.gmx.origin_offset[AXIS_A]"),
        E(<<"g","9","2">>, <<"g","9","2","b">>, "_fi", 3, "get_flt", "set_nul", "cm.gmx.origin_offset[AXIS_B]"),
        E(<<"g","9","2">>, <<"g","9","2","c">>, "_fi", 3, "get_flt", "set_nul", "cm.gmx.origin_offset[AXIS_C]"),
        E(<<"g","2","8">>, <<"g","2","8","x">>, "_fic", 3, "get_flt", "set_nul", "cm.gmx.g28_position[AXIS_X]"),
        E(<<"g","2","8">>, <<"g","2","8","y">>, "_fic", 3, "get_flt", "set_nul", "cm.gmx.g28_position[AXIS_Y]"),
        E(<<"g","2","8">>, <<"g","2","8","z">>, "_fic", 3, "get_flt", "set_nul", "cm.gmx.g28_position[AXIS_Z]"),
        E(<<"g","2","8">>, <<"g","2","8","a">>, "_fi", 3, "get_flt", "set_nul", "cm.gmx.g28_position[AXIS_A]"),
        E(<<"g","2","8">>, <<"g","2","8","b">>, "_fi", 3, "get_flt", "set_nul", "cm.gmx.g28_position[AXIS_B]"),
        E(<<"g","2","8">>, <<"g","2","8","c">>, "_fi", 3, "get_flt", "set_nul", "cm.gmx.g28_position[AXIS_C]"),
        E(<<"g","3","0">>, <<"g","3","0","x">>, "_fic", 3, "get_flt", "set_nul", "cm.gmx.g30_position[AXIS_X]"),
        E(<<"g","3","0">>, <<"g","3","0","y">>, "_fic", 3, "get_flt", "set_nul", "cm.gmx.g30_position[AXIS_Y]"),
        E(<<"g","3","0">>, <<"g","3","0","z">>, "_fic", 3, "get_flt", "set_nul", "cm.gmx.g30_position[AXIS_Z]"),
        E(<<"g","3","0">>, <<"g","3","0","a">>, "_fi", 3, "get_flt", "set_nul", "cm.gmx.g30_position[AXIS_A]"),
        E(<<"g","3","0">>, <<"g","3","0","b">>, "_fi", 3, "get_flt", "set_nul", "cm.gmx.g30_position[AXIS_B]"),
        E(<<"g","3","0">>, <<"g","3","0","c">>, "_fi", 3, "get_flt", "set_nul", "cm.gmx.g30_position[AXIS_C]")
    >>

\* cfgArray lines 494-497: job id
\* cfgJobId with the second line pasted from the first and its token not renamed
cfgJobId_copied ==
    <<
        E(<<"j","i","d">>, <<"j","i","d","a">>, "_f0", 0, "get_data", "set_data", "cfg.job_id[0]"),
        E(<<"j","i","d">>, <<"j","i","d","a">>, "_f0", 0, "get_data", "set_data", "cfg.job_id[1]"),
        E(<<"j","i","d">>, <<"j","i","d","c">>, "_f0", 0, "get_data", "set_data", "cfg.job_id[2]"),
        E(<<"j","i","d">>, <<"j","i","d","d">>, "_f0", 0, "get_data", "set_data", "cfg.job_id[3]")
    >>

cfgJobId ==
    <<
        E(<<"j","i","d">>, <<"j","i","d","a">>, "_f0", 0, "get_data", "set_data", "cfg.job_id[0]"),
        E(<<"j","i","d">>, <<"j","i","d","b">>, "_f0", 0, "get_data", "set_data", "cfg.job_id[1]"),
        E(<<"j","i","d">>, <<"j","i","d","c">>, "_f0", 0, "get_data", "set_data", "cfg.job_id[2]"),
        E(<<"j","i","d">>, <<"j","i","d","d">>, "_f0", 0, "get_data", "set_data", "cfg.job_id[3]")
    >>

\* cfgArray lines 500-557: general system, spindle, coolant, communications and gcode defaults
cfgSystem(b) ==
    <<
        E(<<"s","y","s">>, <<"j","a">>, "_fipn", 2, "get_flt", "cm_set_ja", "cm.junction_aggression"),
        E(<<"s","y","s">>, <<"c","t">>, "_fipnc", 4, "get_flt", "set_flu", "cm.chordal_tolerance"),
        E(<<"s","y","s">>, <<"s","l">>, "_fipn", 0, "get_ui8", "set_01", "cm.soft_limit_enable"),
        E(<<"s","y","s">>, <<"l","i","m">>, "_fipn", 0, "get_ui8", "set_01", "cm.limit_enable"),
        E(<<"s","y","s">>, <<"s","a","f">>, "_fipn", 0, "get_ui8", "set_01", "cm.safety_interlock_enable"),
        E(<<"s","y","s">>, <<"m","t">>, "_fipn", 2, "get_flt", "st_set_mt", "st_cfg.motor_power_timeout"),
        E(<<"s","y","s">>, <<"m","4","8","e">>, "_fipn", 0, "get_ui8", "set_01", "cm.gmx.m48_enable"),
        E(<<"s","y","s">>, <<"m","f","o","e">>, "_fipn", 0, "get_ui8", "set_01", "cm.gmx.mfo_enable"),
        E(<<"s","y","s">>, <<"m","f","o">>, "_fipn", 3, "get_flt", "cm_set_mfo", "cm.gmx.mfo_factor"),
        E(<<"s","y","s">>, <<"m","t","o","e">>, "_fipn", 0, "get_ui8", "set_01", "cm.gmx.mto_enable"),
        E(<<"s","y","s">>, <<"m","t","o">>, "_fipn", 3, "get_flt", "cm_set_mto", "cm.gmx.mto_factor"),
        E(<<"s","y","s">>, <<"s","p","e","p">>, "_fipn", 0, "get_ui8", "set_01", "spindle.enable_polarity"),
        E(<<"s","y","s">>, <<"s","p","d","p">>, "_fipn", 0, "get_ui8", "set_01", "spindle.dir_polarity"),
        E(<<"s","y","s">>, <<"s","p","p","h">>, "_fipn", 0, "get_ui8", "set_01", "spindle.pause_on_hold"),
        E(<<"s","y","s">>, <<"s","p","d","w">>, "_fipn", 2, "get_flt", "set_flt", "spindle.dwell_seconds"),
        E(<<"s","y","s">>, <<"s","s","o","e">>, "_fipn", 0, "get_ui8", "set_01", "spindle.sso_enable"),
        E(<<"s","y","s">>, <<"s","s","o">>, "_fipn", 3, "get_flt", "cm_set_sso", "spindle.sso_factor"),
        E(<<>>, <<"s","p","e">>, "_f0", 0, "get_ui8", "set_nul", "spindle.enable"),
        E(<<>>, <<"s","p","d">>, "_f0", 0, "get_ui8", "cm_set_dir", "spindle.direction"),
        E(<<>>, <<"s","p","s">>, "_f0", 0, "get_flt", "set_nul", "spindle.speed"),
        E(<<"s","y","s">>, <<"c","o","f","p">>, "_fipn", 0, "get_ui8", "set_01", "coolant.flood_polarity"),
        E(<<"s","y","s">>, <<"c","o","m","p">>, "_fipn", 0, "get_ui8", "set_01", "coolant.mist_polarity"),
        E(<<"s","y","s">>, <<"c","o","p","h">>, "_fipn", 0, "get_ui8", "set_01", "coolant.pause_on_hold"),
        E(<<>>, <<"c","o","m">>, "_f0", 0, "get_ui8", "set_nul", "coolant.mist_enable"),
        E(<<>>, <<"c","o","f">>, "_f0", 0, "get_ui8", "set_nul", "coolant.flood_enable")
    >>
    \o (IF b.TEXT_MODE THEN <<
        E(<<"s","y","s">>, <<"t","v">>, "_fipn", 0, "get_ui8", "set_01", "txt.text_verbosity")
    >> ELSE <<>>)
    \o <<
        E(<<"s","y","s">>, <<"e","j">>, "_fipn", 0, "get_ui8", "set_01", "cs.comm_mode"),
        E(<<"s","y","s">>, <<"j","v">>, "_fipn", 0, "get_ui8", "json_set_jv", "js.json_verbosity"),
        E(<<"s","y","s">>, <<"j","s">>, "_fipn", 0, "get_ui8", "set_01", "js.json_syntax"),
        E(<<"s","y","s">>, <<"q","v">>, "_fipn", 0, "get_ui8", "set_0123", "qr.queue_report_verbosity"),
        E(<<"s","y","s">>, <<"s","v">>, "_fipn", 0, "get_ui8", "set_012", "sr.status_report_verbosity"),
        E(<<"s","y","s">>, <<"s","i">>, "_fipn", 0, "get_int", "sr_set_si", "sr.status_report_interval")
    >>
    \o (IF ~b.ARM THEN <<
        E(<<"s","y","s">>, <<"e","c">>, "_fipn", 0, "get_ui8", "set_ec", "cfg.enable_cr"),
        E(<<"s","y","s">>, <<"e","e">>, "_fipn", 0, "get_ui8", "set_ee", "cfg.enable_echo"),
        E(<<"s","y","s">>, <<"e","x">>, "_fipn", 0, "get_ui8", "set_ex", "cfg.enable_flow_control"),
        E(<<"s","y","s">>, <<"b","a","u","d">>, "_fn", 0, "get_ui8", "set_baud", "cfg.usb_baud_rate")
    >> ELSE <<>>)
    \o <<
        E(<<"s","y","s">>, <<"g","p","l">>, "_fipn", 0, "get_ui8", "set_012", "cm.default_select_plane"),
        E(<<"s","y","s">>, <<"g","u","n">>, "_fipn", 0, "get_ui8", "set_01", "cm.default_units_mode"),
        E(<<"s","y","s">>, <<"g","c","o">>, "_fipn", 0, "get_ui8", "set_ui8", "cm.default_coord_system"),
        E(<<"s","y","s">>, <<"g","p","a">>, "_fipn", 0, "get_ui8", "set_012", "cm.default_path_control"),
        E(<<"s","y","s">>, <<"g","d","i">>, "_fipn", 0, "get_ui8", "set_01", "cm.default_distance_mode"),
        E(<<>>, <<"g","c">>, "_f0", 0, "gc_get_gc", "gc_run_gc", "cs.null")
    >>

\* cfgArray lines 560-589: actions and reports
cfgActions(b) ==
    <<
        E(<<>>, <<"s","r">>, "_f0", 0, "sr_get", "sr_set", "cs.null"),
        E(<<>>, <<"q","r">>, "_f0", 0, "qr_get", "set_nul", "cs.null"),
        E(<<>>, <<"q","i">>, "_f0", 0, "qi_get", "set_nul", "cs.null"),
        E(<<>>, <<"q","o">>, "_f0", 0, "qo_get", "set_nul", "cs.null"),
        E(<<>>, <<"e","r">>, "_f0", 0, "rpt_er", "set_nul", "cs.null"),
        E(<<>>, <<"q","f">>, "_f0", 0, "get_nul", "cm_run_qf", "cs.null"),
        E(<<>>, <<"r","x">>, "_f0", 0, "get_rx", "set_nul", "cs.null"),
        E(<<>>, <<"m","s","g">>, "_f0", 0, "get_nul", "set_nul", "cs.null"),
        E(<<>>, <<"a","l","a","r","m">>, "_f0", 0, "cm_alrm", "cm_alrm", "cs.null"),
        E(<<>>, <<"p","a","n","i","c">>, "_f0", 0, "cm_pnic", "cm_pnic", "cs.null"),
        E(<<>>, <<"s","h","u","t","d">>, "_f0", 0, "cm_shutd", "cm_shutd", "cs.null"),
        E(<<>>, <<"c","l","e","a","r">>, "_f0", 0, "cm_clr", "cm_clr", "cs.null"),
        E(<<>>, <<"c","l","r">>, "_f0", 0, "cm_clr", "cm_clr", "cs.null"),
        E(<<>>, <<"t","i","c","k">>, "_f0", 0, "get_tick", "set_nul", "cs.null"),
        E(<<>>, <<"m","e">>, "_f0", 0, "st_set_me", "st_set_me", "cs.null"),
        E(<<>>, <<"m","d">>, "_f0", 0, "st_set_md", "st_set_md", "cs.null"),
        E(<<>>, <<"t","e","s","t">>, "_f0", 0, "help_test", "run_test", "cs.null"),
        E(<<>>, <<"d","e","f","a">>, "_f0", 0, "help_defa", "set_defaults", "cs.null")
    >>
    \o (IF b.ARM THEN <<
        E(<<>>, <<"f","l","a","s","h">>, "_f0", 0, "help_flash", "hw_flash", "cs.null")
    >> ELSE <<>>)
    \o (IF ~b.ARM THEN <<
        E(<<>>, <<"b","o","o","t">>, "_f0", 0, "help_boot_loader", "hw_run_boot", "cs.null")
    >> ELSE <<>>)
    \o (IF b.HELP_SCREENS THEN <<
        E(<<>>, <<"h","e","l","p">>, "_f0", 0, "help_config", "set_nul", "cs.null"),
        E(<<>>, <<"h">>, "_f0", 0, "help_config", "set_nul", "cs.null")
    >> ELSE <<>>)

\* cfgArray lines 591-612: user defined data groups
cfgUserData(b) ==
    (IF b.USER_DATA THEN <<
        E(<<"u","d","a">>, <<"u","d","a","0">>, "_fip", 0, "get_data", "set_data", "cfg.user_data_a[0]"),
        E(<<"u","d","a">>, <<"u","d","a","1">>, "_fip", 0, "get_data", "set_data", "cfg.user_data_a[1]"),
        E(<<"u","d","a">>, <<"u","d","a","2">>, "_fip", 0, "get_data", "set_data", "cfg.user_data_a[2]"),
        E(<<"u","d","a">>, <<"u","d","a","3">>, "_fip", 0, "get_data", "set_data", "cfg.user_data_a[3]"),
        E(<<"u","d","b">>, <<"u","d","b","0">>, "_fip", 0, "get_data", "set_data", "cfg.user_data_b[0]"),
        E(<<"u","d","b">>, <<"u","d","b","1">>, "_fip", 0, "get_data", "set_data", "cfg.user_data_b[1]"),
        E(<<"u","d","b">>, <<"u","d","b","2">>, "_fip", 0, "get_data", "set_data", "cfg.user_data_b[2]"),
        E(<<"u","d","b">>, <<"u","d","b","3">>, "_fip", 0, "get_data", "set_data", "cfg.user_data_b[3]"),
        E(<<"u","d","c">>, <<"u","d","c","0">>, "_fip", 0, "get_data", "set_data", "cfg.user_data_c[0]"),
        E(<<"u","d","c">>, <<"u","d","c","1">>, "_fip", 0, "get_data", "set_data", "cfg.user_data_c[1]"),
        E(<<"u","d","c">>, <<"u","d","c","2">>, "_fip", 0, "get_data", "set_data", "cfg.user_data_c[2]"),
        E(<<"u","d","c">>, <<"u","d","c","3">>, "_fip", 0, "get_data", "set_data", "cfg.user_data_c[3]"),
        E(<<"u","d","d">>, <<"u","d","d","0">>, "_fip", 0, "get_data", "set_data", "cfg.user_data_d[0]"),
        E(<<"u","d","d">>, <<"u","d","d","1">>, "_fip", 0, "get_data", "set_data", "cfg.user_data_d[1]"),
        E(<<"u","d","d">>, <<"u","d","d","2">>, "_fip", 0, "get_data", "set_data", "cfg.user_data_d[2]"),
        E(<<"u","d","d">>, <<"u","d","d","3">>, "_fip", 0, "get_data", "set_data", "cfg.user_data_d[3]")
    >> ELSE <<>>)

\* cfgArray lines 615-681: diagnostic parameters
cfgDiagnostics(b) ==
    (IF b.DIAGNOSTIC_PARAMETERS THEN <<
        E(<<>>, <<"c","l","c">>, "_f0", 0, "st_clc", "st_clc", "cs.null"),
        E(<<>>, <<"_","d","a","m">>, "_f0", 0, "cm_dam", "cm_dam", "cs.null"),
        E(<<"_","t","e">>, <<"_","t","e","x">>, "_f0", 2, "get_flt", "set_nul", "mr.target[AXIS_X]"),
        E(<<"_","t","e">>, <<"_","t","e","y">>, "_f0", 2, "get_flt", "set_nul", "mr.target[AXIS_Y]"),
        E(<<"_","t","e">>, <<"_","t","e","z">>, "_f0", 2, "get_flt", "set_nul", "mr.target[AXIS_Z]"),
        E(<<"_","t","e">>, <<"_","t","e","a">>, "_f0", 2, "get_flt", "set_nul", "mr.target[AXIS_A]"),
        E(<<"_","t","e">>, <<"_","t","e","b">>, "_f0", 2, "get_flt", "set_nul", "mr.target[AXIS_B]"),
        E(<<"_","t","e">>, <<"_","t","e","c">>, "_f0", 2, "get_flt", "set_nul", "mr.target[AXIS_C]"),
        E(<<"_","t","r">>, <<"_","t","r","x">>, "_f0", 2, "get_flt", "set_nul", "mr.gm.target[AXIS_X]"),
        E(<<"_","t","r">>, <<"_","t","r","y">>, "_f0", 2, "get_flt", "set_nul", "mr.gm.target[AXIS_Y]"),
        E(<<"_","t","r">>, <<"_","t","r","z">>, "_f0", 2, "get_flt", "set_nul", "mr.gm.target[AXIS_Z]"),
        E(<<"_","t","r">>, <<"_","t","r","a">>, "_f0", 2, "get_flt", "set_nul", "mr.gm.target[AXIS_A]"),
        E(<<"_","t","r">>, <<"_","t","r","b">>, "_f0", 2, "get_flt", "set_nul", "mr.gm.target[AXIS_B]"),
        E(<<"_","t","r">>, <<"_","t","r","c">>, "_f0", 2, "get_flt", "set_nul", "mr.gm.target[AXIS_C]")
    >> ELSE <<>>)
    \o (IF b.DIAGNOSTIC_PARAMETERS /\ b.MOTORS >= 1 THEN <<
        E(<<"_","t","s">>, <<"_","t","s","1">>, "_f0", 2, "get_flt", "set_nul", "mr.target_steps[MOTOR_1]"),
        E(<<"_","p","s">>, <<"_","p","s","1">>, "_f0", 2, "get_flt", "set_nul", "mr.position_steps[MOTOR_1]"),
        E(<<"_","c","s">>, <<"_","c","s","1">>, "_f0", 2, "get_flt", "set_nul", "mr.commanded_steps[MOTOR_1]"),
        E(<<"_","e","s">>, <<"_","e","s","1">>, "_f0", 2, "get_flt", "set_nul", "mr.encoder_steps[MOTOR_1]"),
        E(<<"_","x","s">>, <<"_","x","s","1">>, "_f0", 2, "get_flt", "set_nul", "st_pre.mot[MOTOR_1].corrected_steps"),
        E(<<"_","f","e">>, <<"_","f","e","1">>, "_f0", 2, "get_flt", "set_nul", "mr.following_error[MOTOR_1]")
    >> ELSE <<>>)
    \o (IF b.DIAGNOSTIC_PARAMETERS /\ b.MOTORS >= 2 THEN <<
        E(<<"_","t","s">>, <<"_","t","s","2">>, "_f0", 2, "get_flt", "set_nul", "mr.target_steps[MOTOR_2]"),
        E(<<"_","p","s">>, <<"_","p","s","2">>, "_f0", 2, "get_flt", "set_nul", "mr.position_steps[MOTOR_2]"),
        E(<<"_","c","s">>, <<"_","c","s","2">>, "_f0", 2, "get_flt", "set_nul", "mr.commanded_steps[MOTOR_2]"),
        E(<<"_","e","s">>, <<"_","e","s","2">>, "_f0", 2, "get_flt", "set_nul", "mr.encoder_steps[MOTOR_2]"),
        E(<<"_","x","s">>, <<"_","x","s","2">>, "_f0", 2, "get_flt", "set_nul", "st_pre.mot[MOTOR_2].corrected_steps"),
        E(<<"_","f","e">>, <<"_","f","e","2">>, "_f0", 2, "get_flt", "set_nul", "mr.following_error[MOTOR_2]")
    >> ELSE <<>>)
    \o (IF b.DIAGNOSTIC_PARAMETERS /\ b.MOTORS >= 3 THEN <<
        E(<<"_","t","s">>, <<"_","t","s","3">>, "_f0", 2, "get_flt", "set_nul", "mr.target_steps[MOTOR_3]"),
        E(<<"_","p","s">>, <<"_","p","s","3">>, "_f0", 2, "get_flt", "set_nul", "mr.position_steps[MOTOR_3]"),
        E(<<"_","c","s">>, <<"_","c","s","3">>, "_f0", 2, "get_flt", "set_nul", "mr.commanded_steps[MOTOR_3]"),
        E(<<"_","e","s">>, <<"_","e","s","3">>, "_f0", 2, "get_flt", "set_nul", "mr.encoder_steps[MOTOR_3]"),
        E(<<"_","x","s">>, <<"_","x","s","3">>, "_f0", 2, "get_flt", "set_nul", "st_pre.mot[MOTOR_3].corrected_steps"),
        E(<<"_","f","e">>, <<"_","f","e","3">>, "_f0", 2, "get_flt", "set_nul", "mr.following_error[MOTOR_3]")
    >> ELSE <<>>)
    \o (IF b.DIAGNOSTIC_PARAMETERS /\ b.MOTORS >= 4 THEN <<
        E(<<"_","t","s">>, <<"_","t","s","4">>, "_f0", 2, "get_flt", "set_nul", "mr.target_steps[MOTOR_4]"),
        E(<<"_","p","s">>, <<"_","p","s","4">>, "_f0", 2, "get_flt", "set_nul", "mr.position_steps[MOTOR_4]"),
        E(<<"_","c","s">>, <<"_","c","s","4">>, "_f0", 2, "get_flt", "set_nul", "mr.commanded_steps[MOTOR_4]"),
        E(<<"_","e","s">>, <<"_","e","s","4">>, "_f0", 2, "get_flt", "set_nul", "mr.encoder_steps[MOTOR_4]"),
        E(<<"_","x","s">>, <<"_","x","s","4">>, "_f0", 2, "get_flt", "set_nul", "st_pre.mot[MOTOR_4].corrected_steps"),
        E(<<"_","f","e">>, <<"_","f","e","4">>, "_f0", 2, "get_flt", "set_nul", "mr.following_error[MOTOR_4]")
    >> ELSE <<>>)
    \o (IF b.DIAGNOSTIC_PARAMETERS /\ b.MOTORS >= 5 THEN <<
        E(<<"_","t","s">>, <<"_","t","s","5">>, "_f0", 2, "get_flt", "set_nul", "mr.target_steps[MOTOR_5]"),
        E(<<"_","p","s">>, <<"_","p","s","5">>, "_f0", 2, "get_flt", "set_nul", "mr.position_steps[MOTOR_5]"),
        E(<<"_","c","s">>, <<"_","c","s","5">>, "_f0", 2, "get_flt", "set_nul", "mr.commanded_steps[MOTOR_5]"),
        E(<<"_","e","s">>, <<"_","e","s","5">>, "_f0", 2, "get_flt", "set_nul", "mr.encoder_steps[MOTOR_5]"),
        E(<<"_","x","s">>, <<"_","x","s","6">>, "_f0", 2, "get_flt", "set_nul", "st_pre.mot[MOTOR_5].corrected_steps"),
        E(<<"_","f","e">>, <<"_","f","e","5">>, "_f0", 2, "get_flt", "set_nul", "mr.following_error[MOTOR_5]")
    >> ELSE <<>>)
    \o (IF b.DIAGNOSTIC_PARAMETERS /\ b.MOTORS >= 6 THEN <<
        E(<<"_","t","s">>, <<"_","t","s","6">>, "_f0", 2, "get_flt", "set_nul", "mr.target_steps[MOTOR_6]"),
        E(<<"_","p","s">>, <<"_","p","s","6">>, "_f0", 2, "get_flt", "set_nul", "mr.position_steps[MOTOR_6]"),
        E(<<"_","c","s">>, <<"_","c","s","6">>, "_f0", 2, "get_flt", "set_nul", "mr.commanded_steps[MOTOR_6]"),
        E(<<"_","e","s">>, <<"_","e","s","6">>, "_f0", 2, "get_flt", "set_nul", "mr.encoder_steps[MOTOR_6]"),
        E(<<"_","x","s">>, <<"_","x","s","5">>, "_f0", 2, "get_flt", "set_nul", "st_pre.mot[MOTOR_6].corrected_steps"),
        E(<<"_","f","e">>, <<"_","f","e","6">>, "_f0", 2, "get_flt", "set_nul", "mr.following_error[MOTOR_6]")
    >> ELSE <<>>)

\* cfgArray lines 685-724: persistence slots for the status report
cfgStatusReport ==
    <<
        E(<<>>, <<"s","e","0","0">>, "_fp", 0, "get_int", "set_int", "sr.status_report_list[0]"),
        E(<<>>, <<"s","e","0","1">>, "_fp", 0, "get_int", "set_int", "sr.status_report_list[1]"),
        E(<<>>, <<"s","e","0","2">>, "_fp", 0, "get_int", "set_int", "sr.status_report_list[2]"),
        E(<<>>, <<"s","e","0","3">>, "_fp", 0, "get_int", "set_int", "sr.status_report_list[3]"),
        E(<<>>, <<"s","e","0","4">>, "_fp", 0, "get_int", "set_int", "sr.status_report_list[4]"),
        E(<<>>, <<"s","e","0","5">>, "_fp", 0, "get_int", "set_int", "sr.status_report_list[5]"),
        E(<<>>, <<"s","e","0","6">>, "_fp", 0, "get_int", "set_int", "sr.status_report_list[6]"),
        E(<<>>, <<"s","e","0","7">>, "_fp", 0, "get_int", "set_int", "sr.status_report_list[7]"),
        E(<<>>, <<"s","e","0","8">>, "_fp", 0, "get_int", "set_int", "sr.status_report_list[8]"),
        E(<<>>, <<"s","e","0","9">>, "_fp", 0, "get_int", "set_int", "sr.status_report_list[9]"),
        E(<<>>, <<"s","e","1","0">>, "_fp", 0, "get_int", "set_int", "sr.status_report_list[10]"),
        E(<<>>, <<"s","e","1","1">>, "_fp", 0, "get_int", "set_int", "sr.status_report_list[11]"),
        E(<<>>, <<"s","e","1","2">>, "_fp", 0, "get_int", "set_int", "sr.status_report_list[12]"),
        E(<<>>, <<"s","e","1","3">>, "_fp", 0, "get_int", "set_int", "sr.status_report_list[13]"),
        E(<<>>, <<"s","e","1","4">>, "_fp", 0, "get_int", "set_int", "sr.status_report_list[14]"),
        E(<<>>, <<"s","e","1","5">>, "_fp", 0, "get_int", "set_int", "sr.status_report_list[15]"),
        E(<<>>, <<"s","e","1","6">>, "_fp", 0, "get_int", "set_int", "sr.status_report_list[16]"),
        E(<<>>, <<"s","e","1","7">>, "_fp", 0, "get_int", "set_int", "sr.status_report_list[17]"),
        E(<<>>, <<"s","e","1","8">>, "_fp", 0, "get_int", "set_int", "sr.status_report_list[18]"),
        E(<<>>, <<"s","e","1","9">>, "_fp", 0, "get_int", "set_int", "sr.status_report_list[19]"),
        E(<<>>, <<"s","e","2","0">>, "_fp", 0, "get_int", "set_int", "sr.status_report_list[20]"),
        E(<<>>, <<"s","e","2","1">>, "_fp", 0, "get_int", "set_int", "sr.status_report_list[21]"),
        E(<<>>, <<"s","e","2","2">>, "_fp", 0, "get_int", "set_int", "sr.status_report_list[22]"),
        E(<<>>, <<"s","e","2","3">>, "_fp", 0, "get_int", "set_int", "sr.status_report_list[23]"),
        E(<<>>, <<"s","e","2","4">>, "_fp", 0, "get_int", "set_int", "sr.status_report_list[24]"),
        E(<<>>, <<"s","e","2","5">>, "_fp", 0, "get_int", "set_int", "sr.status_report_list[25]"),
        E(<<>>, <<"s","e","2","6">>, "_fp", 0, "get_int", "set_int", "sr.status_report_list[26]"),
        E(<<>>, <<"s","e","2","7">>, "_fp", 0, "get_int", "set_int", "sr.status_report_list[27]"),
        E(<<>>, <<"s","e","2","8">>, "_fp", 0, "get_int", "set_int", "sr.status_report_list[28]"),
        E(<<>>, <<"s","e","2","9">>, "_fp", 0, "get_int", "set_int", "sr.status_report_list[29]"),
        E(<<>>, <<"s","e","3","0">>, "_fp", 0, "get_int", "set_int", "sr.status_report_list[30]"),
        E(<<>>, <<"s","e","3","1">>, "_fp", 0, "get_int", "set_int", "sr.status_report_list[31]"),
        E(<<>>, <<"s","e","3","2">>, "_fp", 0, "get_int", "set_int", "sr.status_report_list[32]"),
        E(<<>>, <<"s","e","3","3">>, "_fp", 0, "get_int", "set_int", "sr.status_report_list[33]"),
        E(<<>>, <<"s","e","3","4">>, "_fp", 0, "get_int", "set_int", "sr.status_report_list[34]"),
        E(<<>>, <<"s","e","3","5">>, "_fp", 0, "get_int", "set_int", "sr.status_report_list[35]"),
        E(<<>>, <<"s","e","3","6">>, "_fp", 0, "get_int", "set_int", "sr.status_report_list[36]"),
        E(<<>>, <<"s","e","3","7">>, "_fp", 0, "get_int", "set_int", "sr.status_report_list[37]"),
        E(<<>>, <<"s","e","3","8">>, "_fp", 0, "get_int", "set_int", "sr.status_report_list[38]"),
        E(<<>>, <<"s","e","3","9">>, "_fp", 0, "get_int", "set_int", "sr.status_report_list[39]")
    >>

\* cfgArray lines 736-803: group lookups
cfgGroups(b) ==
    <<
        E(<<>>, <<"s","y","s">>, "_f0", 0, "get_grp", "set_grp", "cs.null"),
        E(<<>>, <<"p","1">>, "_f0", 0, "get_grp", "set_grp", "cs.null"),
        E(<<>>, <<"1">>, "_f0", 0, "get_grp", "set_grp", "cs.null"),
        E(<<>>, <<"2">>, "_f0", 0, "get_grp", "set_grp", "cs.null"),
        E(<<>>, <<"3">>, "_f0", 0, "get_grp", "set_grp", "cs.null"),
        E(<<>>, <<"4">>, "_f0", 0, "get_grp", "set_grp", "cs.null")
    >>
    \o (IF b.MOTORS >= 5 THEN <<
        E(<<>>, <<"5">>, "_f0", 0, "get_grp", "set_grp", "cs.null")
    >> ELSE <<>>)
    \o (IF b.MOTORS >= 6 THEN <<
        E(<<>>, <<"6">>, "_f0", 0, "get_grp", "set_grp", "cs.null")
    >> ELSE <<>>)
    \o <<
        E(<<>>, <<"x">>, "_f0", 0, "get_grp", "set_grp", "cs.null"),
        E(<<>>, <<"y">>, "_f0", 0, "get_grp", "set_grp", "cs.null"),
        E(<<>>, <<"z">>, "_f0", 0, "get_grp", "set_grp", "cs.null"),
        E(<<>>, <<"a">>, "_f0", 0, "get_grp", "set_grp", "cs.null"),
        E(<<>>, <<"b">>, "_f0", 0, "get_grp", "set_grp", "cs.null"),
        E(<<>>, <<"c">>, "_f0", 0, "get_grp", "set_grp", "cs.null"),
        E(<<>>, <<"i","n">>, "_f0", 0, "get_grp", "set_grp", "cs.null"),
        E(<<>>, <<"d","i","1">>, "_f0", 0, "get_grp", "set_grp", "cs.null"),
        E(<<>>, <<"d","i","2">>, "_f0", 0, "get_grp", "set_grp", "cs.null"),
        E(<<>>, <<"d","i","3">>, "_f0", 0, "get_grp", "set_grp", "cs.null"),
        E(<<>>, <<"d","i","4">>, "_f0", 0, "get_grp", "set_grp", "cs.null"),
        E(<<>>, <<"d","i","5">>, "_f0", 0, "get_grp", "set_grp", "cs.null"),
        E(<<>>, <<"d","i","6">>, "_f0", 0, "get_grp", "set_grp", "cs.null"),
        E(<<>>, <<"d","i","7">>, "_f0", 0, "get_grp", "set_grp", "cs.null"),
        E(<<>>, <<"d","i","8">>, "_f0", 0, "get_grp", "set_grp", "cs.null"),
        E(<<>>, <<"d","i","9">>, "_f0", 0, "get_grp", "set_grp", "cs.null"),
        E(<<>>, <<"g","5","4">>, "_f0", 0, "get_grp", "set_grp", "cs.null"),
        E(<<>>, <<"g","5","5">>, "_f0", 0, "get_grp", "set_grp", "cs.null"),
        E(<<>>, <<"g","5","6">>, "_f0", 0, "get_grp", "set_grp", "cs.null"),
        E(<<>>, <<"g","5","7">>, "_f0", 0, "get_grp", "set_grp", "cs.null"),
        E(<<>>, <<"g","5","8">>, "_f0", 0, "get_grp", "set_grp", "cs.null"),
        E(<<>>, <<"g","5","9">>, "_f0", 0, "get_grp", "set_grp", "cs.null"),
        E(<<>>, <<"g","9","2">>, "_f0", 0, "get_grp", "set_grp", "cs.null"),
        E(<<>>, <<"g","2","8">>, "_f0", 0, "get_grp", "set_grp", "cs.null"),
        E(<<>>, <<"g","3","0">>, "_f0", 0, "get_grp", "set_grp", "cs.null"),
        E(<<>>, <<"m","p","o">>, "_f0", 0, "get_grp", "set_grp", "cs.null"),
        E(<<>>, <<"p","o","s">>, "_f0", 0, "get_grp", "set_grp", "cs.null"),
        E(<<>>, <<"o","f","s">>, "_f0", 0, "get_grp", "set_grp", "cs.null"),
        E(<<>>, <<"h","o","m">>, "_f0", 0, "get_grp", "set_grp", "cs.null"),
        E(<<>>, <<"p","r","b">>, "_f0", 0, "get_grp", "set_grp", "cs.null"),
        E(<<>>, <<"p","w","r">>, "_f0", 0, "get_grp", "set_grp", "cs.null"),
        E(<<>>, <<"j","o","g">>, "_f0", 0, "get_grp", "set_grp", "cs.null"),
        E(<<>>, <<"j","i","d">>, "_f0", 0, "get_grp", "set_grp", "cs.null")
    >>
    \o (IF b.USER_DATA THEN <<
        E(<<>>, <<"u","d","a">>, "_f0", 0, "get_grp", "set_grp", "cs.null"),
        E(<<>>, <<"u","d","b">>, "_f0", 0, "get_grp", "set_grp", "cs.null"),
        E(<<>>, <<"u","d","c">>, "_f0", 0, "get_grp", "set_grp", "cs.null"),
        E(<<>>, <<"u","d","d">>, "_f0", 0, "get_grp", "set_grp", "cs.null")
    >> ELSE <<>>)
    \o (IF b.DIAGNOSTIC_PARAMETERS THEN <<
        E(<<>>, <<"_","t","e">>, "_f0", 0, "get_grp", "set_grp", "cs.null"),
        E(<<>>, <<"_","t","r">>, "_f0", 0, "get_grp", "set_grp", "cs.null"),
        E(<<>>, <<"_","t","s">>, "_f0", 0, "get_grp", "set_grp", "cs.null"),
        E(<<>>, <<"_","p","s">>, "_f0", 0, "get_grp", "set_grp", "cs.null"),
        E(<<>>, <<"_","c","s">>, "_f0", 0, "get_grp", "set_grp", "cs.null"),
        E(<<>>, <<"_","e","s">>, "_f0", 0, "get_grp", "set_grp", "cs.null"),
        E(<<>>, <<"_","x","s">>, "_f0", 0, "get_grp", "set_grp", "cs.null"),
        E(<<>>, <<"_","f","e">>, "_f0", 0, "get_grp", "set_grp", "cs.null")
    >> ELSE <<>>)

\* cfgArray lines 807-811: uber-groups
cfgUberGroups ==
    <<
        E(<<>>, <<"m">>, "_f0", 0, "_do_motors", "set_nul", "cs.null"),
        E(<<>>, <<"q">>, "_f0", 0, "_do_axes", "set_nul", "cs.null"),
        E(<<>>, <<"o">>, "_f0", 0, "_do_offsets", "set_nul", "cs.null"),
        E(<<>>, <<"d","i">>, "_f0", 0, "_do_inputs", "set_nul", "cs.null"),
        E(<<>>, <<"$">>, "_f0", 0, "_do_all", "set_nul", "cs.null")
    >>

\* The whole table of one build, in source order (0-based index i is cfgArray(b)[i+1])
cfgArray(b) ==
    cfgIdentity
    \o cfgModelState
    \o cfgPositions
    \o cfgMotors(b)
    \o cfgAxes(b)
    \o cfgInputs(b)
    \o cfgPwm
    \o cfgOffsets
    \o cfgJobId
    \o cfgSystem(b)
    \o cfgActions(b)
    \o cfgUserData(b)
    \o cfgDiagnostics(b)
    \o cfgStatusReport
    \o cfgGroups(b)
    \o cfgUberGroups

\* The table of every build.  (f @@ <<>> is f; TLC tabulates it once.)
cfgTable == [b \in Builds |-> cfgArray(b)] @@ <<>>

\* cfgArray[i] of build b, i counted from 0 as in C
\* cfgArray with the travel limit of the a axis written like that of x, by set_flu
Item_atm_as_xtm(b, i) ==
    IF cfgTable[b][i + 1].token = <<"a","t","m">>
    THEN [cfgTable[b][i + 1] EXCEPT !.set = "set_flu"]
    ELSE cfgTable[b][i + 1]

Item(b, i) == cfgTable[b][i + 1]

\* config.h: the flags macros _f0, _fi, _fp, _fn, _fip, ... or the F_ bits together,
\* one letter a bit; c is F_CONVERT
F_CONVERT(flags) == flags \in {"_fipc", "_fic", "_fipnc"}

(***************************************************************************)
(* Index boundaries and classifiers (lines 814-854)                        *)
(***************************************************************************)
NV_COUNT_UBER_GROUPS == 5
FIXED_GROUPS == 39
MOTOR_GROUP_5(b) == IF b.MOTORS >= 5 THEN 1 ELSE 0
MOTOR_GROUP_6(b) == IF b.MOTORS >= 6 THEN 1 ELSE 0
USER_DATA_GROUPS(b) == IF b.USER_DATA THEN 4 ELSE 0
DIAGNOSTIC_GROUPS(b) == IF b.DIAGNOSTIC_PARAMETERS THEN 8 ELSE 0

\* NV_COUNT_GROUPS without the groups of the optional motors
NV_COUNT_GROUPS_fixed_motors(b) ==
    FIXED_GROUPS + USER_DATA_GROUPS(b) + DIAGNOSTIC_GROUPS(b)

\* NV_COUNT_GROUPS without MOTOR_GROUP_6
NV_COUNT_GROUPS_motor_5_only(b) ==
    FIXED_GROUPS + MOTOR_GROUP_5(b) + USER_DATA_GROUPS(b) + DIAGNOSTIC_GROUPS(b)

NV_COUNT_GROUPS(b) ==
    FIXED_GROUPS + MOTOR_GROUP_5(b) + MOTOR_GROUP_6(b)
        + USER_DATA_GROUPS(b) + DIAGNOSTIC_GROUPS(b)

\* report.h.  Line 684: the count of se.. slots must agree with it; line 725: 40.
NV_STATUS_REPORT_LEN == 40

\* sizeof(cfgArray) / sizeof(cfgItem_t)
NV_INDEX_MAX(b) == Len(cfgTable[b])

\* NV_INDEX_END_SINGLES without the uber-groups taken off
NV_INDEX_END_SINGLES_uber_kept(b) ==
    NV_INDEX_MAX(b) - NV_COUNT_GROUPS(b) - NV_STATUS_REPORT_LEN

NV_INDEX_END_SINGLES(b) ==
    NV_INDEX_MAX(b) - NV_COUNT_UBER_GROUPS - NV_COUNT_GROUPS(b) - NV_STATUS_REPORT_LEN

NV_INDEX_START_GROUPS(b) ==
    NV_INDEX_MAX(b) - NV_COUNT_UBER_GROUPS - NV_COUNT_GROUPS(b)

NV_INDEX_START_UBER_GROUPS(b) == NV_INDEX_MAX(b) - NV_COUNT_UBER_GROUPS

nv_index_max(b) == NV_INDEX_MAX(b)

nv_index_is_single(b, index) == index <= NV_INDEX_END_SINGLES(b)

nv_index_is_group(b, index) ==
    (index >= NV_INDEX_START_GROUPS(b)) /\ (index < NV_INDEX_START_UBER_GROUPS(b))

nv_index_lt_groups(b, index) == index <= NV_INDEX_START_GROUPS(b)

(***************************************************************************)
(* float: IEEE-754 single precision                                        *)
(***************************************************************************)
\* A float is its three bit fields: sign, biased exponent, fraction.
Float(s, e, f) == [s |-> s, e |-> e, f |-> f]
IsNaN(x) == x.e = 255 /\ x.f # 0
IsInf(x) == x.e = 255 /\ x.f = 0
IsZero(x) == x.e = 0 /\ x.f = 0

\* Natural numbers wider than TLC's integers: base-4096 digits, lowest first.
Digit(a, i) == IF i <= Len(a) THEN a[i] ELSE 0

RECURSIVE ColSum(_, _, _, _)
ColSum(a, b, k, i) ==
    IF i > Len(a) THEN 0
    ELSE (IF k + 1 - i >= 1 /\ k + 1 - i <= Len(b) THEN a[i] * b[k + 1 - i] ELSE 0)
         + ColSum(a, b, k, i + 1)

RECURSIVE MulCols(_, _, _, _)
MulCols(a, b, k, carry) ==
    IF k > Len(a) + Len(b) THEN <<>>
    ELSE LET t == ColSum(a, b, k, 1) + carry
         IN  <<t % 4096>> \o MulCols(a, b, k + 1, t \div 4096)

BigMul(a, b) == MulCols(a, b, 1, 0)

RECURSIVE TopDigit(_, _)
TopDigit(a, i) == IF i = 0 THEN 0 ELSE IF a[i] # 0 THEN i ELSE TopDigit(a, i - 1)

\* number of bits of a: 0 for 0
BigBits(a) ==
    LET h == TopDigit(a, Len(a))
    IN  IF h = 0 THEN 0
        ELSE 12 * (h - 1) + (CHOOSE n \in 1..12 : a[h] < 2^n /\ a[h] >= 2^(n - 1))

\* floor(a / 2^k)
BigShr(a, k) ==
    LET q == k \div 12
        r == k % 12
    IN  [i \in 1..(IF Len(a) > q THEN Len(a) - q ELSE 0) |->
            (Digit(a, i + q) \div 2^r) + (Digit(a, i + q + 1) % 2^r) * 2^(12 - r)]

\* bit k of a, the lowest being bit 0
BigBit(a, k) == (Digit(a, k \div 12 + 1) \div 2^(k % 12)) % 2

\* a mod 2^k = 0
BigLowZero(a, k) ==
    /\ \A i \in 1..(k \div 12) : Digit(a, i) = 0
    /\ Digit(a, k \div 12 + 1) % 2^(k % 12) = 0

RECURSIVE BigInc(_)
BigInc(a) ==
    IF a = <<>> THEN <<1>>
    ELSE IF a[1] < 4095 THEN <<a[1] + 1>> \o Tail(a)
    ELSE <<0>> \o BigInc(Tail(a))

\* a / 2^k rounded to the nearest integer, ties to even
BigRound(a, k) ==
    IF k = 0 THEN a
    ELSE LET q == BigShr(a, k)
             up == BigBit(a, k - 1) = 1 /\ (~BigLowZero(a, k - 1) \/ BigBit(a, k) = 1)
         IN  IF up THEN BigInc(q) ELSE q

\* the value of a number below 2^25
BigToInt(a) == Digit(a, 1) + 4096 * Digit(a, 2) + 16777216 * Digit(a, 3)

IntToBig(n) == <<n % 4096, (n \div 4096) % 4096, n \div 16777216>>

\* s * P * 2^x2 rounded to float: gradual underflow below 2^-126, infinity above FLT_MAX
ToFloat(s, P, x2) ==
    LET n == BigBits(P)
        k == IF n - 24 > (-149) - x2 THEN n - 24 ELSE (-149) - x2
        m0 == BigToInt(BigRound(P, k))
        m == IF m0 = 16777216 THEN 8388608 ELSE m0
        Ef == IF m0 = 16777216 THEN x2 + k + 1 ELSE x2 + k
    IN  IF n = 0 THEN Float(s, 0, 0)
        ELSE IF m >= 8388608
             THEN (IF Ef + 150 >= 255 THEN Float(s, 255, 0) ELSE Float(s, Ef + 150, m - 8388608))
             ELSE Float(s, 0, m)

\* x * c for a positive constant c = c.m * 2^c.e whose type has c.p significand bits.
\* Where that type is double (53 bits) the float operand is promoted, the product is
\* rounded to double and the assignment converts it to float; where double is float
\* (24 bits) the product is rounded once, to float.
FMulConst(x, c) ==
    IF x.e = 255 \/ IsZero(x) THEN x
    ELSE LET mx == IF x.e > 0 THEN 8388608 + x.f ELSE x.f
             ex == IF x.e > 0 THEN x.e - 150 ELSE -149
             P == BigMul(IntToBig(mx), c.m)
             n == BigBits(P)
             k == IF c.p > 24 /\ n > c.p THEN n - c.p ELSE 0
         IN  ToFloat(x.s, BigRound(P, k), ex + c.e + k)

(***************************************************************************)
(* Units conversion (lines 858-892)                                        *)
(***************************************************************************)
\* util.h: MM_PER_INCH is 25.4 and INCHES_PER_MM is (1/25.4), double constants.
\* On __ARM double has 53 significand bits; on __AVR double is float, and the
\* quotient 1/25.4 is formed in float.  m is the significand, lowest digit first.
MM_PER_INCH(b) ==
    IF b.ARM THEN [m |-> <<1638, 1638, 1638, 1638, 25>>, e |-> -48, p |-> 53]
    ELSE [m |-> <<819, 3251>>, e |-> -19, p |-> 24]

INCHES_PER_MM(b) ==
    IF b.ARM THEN [m |-> <<1290, 1064, 161, 645, 20>>, e |-> -57, p |-> 53]
    ELSE [m |-> <<645, 2580>>, e |-> -28, p |-> 24]

\* The float a target points at; static storage is zero until written
MemRead(m, t) == IF t \in DOMAIN m THEN m[t] ELSE Float(0, 0, 0)

MemWrite(m, t, v) == [x \in (DOMAIN m) \cup {t} |-> IF x = t THEN v ELSE m[x]]

\* set_flu(nv) under units mode u and memory m: the nvObj, the memory and the
\* status it leaves
\* set_flu without the conversion of line 872
set_flu_unconverted(b, u, n, m) ==
    [ nv |-> [n EXCEPT !.precision = Item(b, n.index).precision, !.valuetype = "TYPE_FLOAT"],
      mem |-> MemWrite(m, Item(b, n.index).target, n.value),
      ret |-> "STAT_OK" ]

\* set_flu converting whatever the units mode
set_flu_always_converts(b, u, n, m) ==
    LET v == FMulConst(n.value, MM_PER_INCH(b))
    IN  [ nv |-> [n EXCEPT !.value = v, !.precision = Item(b, n.index).precision,
                           !.valuetype = "TYPE_FLOAT"],
          mem |-> MemWrite(m, Item(b, n.index).target, v),
          ret |-> "STAT_OK" ]

set_flu(b, u, n, m) ==
    LET v == IF u = "INCHES" THEN FMulConst(n.value, MM_PER_INCH(b)) ELSE n.value
    IN  [ nv |-> [n EXCEPT !.value = v,
                           !.precision = Item(b, n.index).precision,
                           !.valuetype = "TYPE_FLOAT"],
          mem |-> MemWrite(m, Item(b, n.index).target, v),
          ret |-> "STAT_OK" ]

\* config.cpp, set_flt(nv): the same without the conversion
set_flt(b, u, n, m) ==
    [ nv |-> [n EXCEPT !.precision = Item(b, n.index).precision,
                       !.valuetype = "TYPE_FLOAT"],
      mem |-> MemWrite(m, Item(b, n.index).target, n.value),
      ret |-> "STAT_OK" ]

\* config.cpp, get_flt(nv): reads the target into the nvObj
get_flt(b, n, m) ==
    [ nv |-> [n EXCEPT !.value = MemRead(m, Item(b, n.index).target),
                       !.precision = Item(b, n.index).precision,
                       !.valuetype = "TYPE_FLOAT"],
      ret |-> "STAT_OK" ]

\* preprocess_float(nv) under units mode u: the nvObj it leaves
\* preprocess_float replacing an illegal value by zero
preprocess_float_clears_illegal(b, u, n) ==
    IF IsNaN(n.value) \/ IsInf(n.value) THEN [n EXCEPT !.value = Float(0, 0, 0)]
    ELSE IF F_CONVERT(Item(b, n.index).flags) /\ u = "INCHES"
         THEN [n EXCEPT !.value = FMulConst(n.value, INCHES_PER_MM(b))]
         ELSE n

\* preprocess_float without the test of F_CONVERT
preprocess_float_ignores_flag(b, u, n) ==
    IF IsNaN(n.value) \/ IsInf(n.value) THEN n
    ELSE IF u = "INCHES"
         THEN [n EXCEPT !.value = FMulConst(n.value, INCHES_PER_MM(b))]
         ELSE n

\* preprocess_float converting with the constant of the other direction
preprocess_float_by_mm_per_inch(b, u, n) ==
    IF IsNaN(n.value) \/ IsInf(n.value) THEN n
    ELSE IF F_CONVERT(Item(b, n.index).flags) /\ u = "INCHES"
         THEN [n EXCEPT !.value = FMulConst(n.value, MM_PER_INCH(b))]
         ELSE n

preprocess_float(b, u, n) ==
    IF IsNaN(n.value) \/ IsInf(n.value) THEN n
    ELSE IF F_CONVERT(Item(b, n.index).flags) /\ u = "INCHES"
         THEN [n EXCEPT !.value = FMulConst(n.value, INCHES_PER_MM(b))]
         ELSE n

(***************************************************************************)
(* State                                                                   *)
(***************************************************************************)
NoValue == [none |-> TRUE]

UnitsModes == {"INCHES", "MILLIMETERS"}

\* an nvObj_t after nv_reset_nv()
NvReset ==
    [ index |-> 0, token |-> <<>>, value |-> Float(0, 0, 0),
      valuetype |-> "TYPE_NULL", precision |-> 0 ]

\* The nvObj list after nv_reset_nv_list(): every object empty
NoList == [token |-> <<>>, index |-> 0, kids |-> <<>>]

\* cfg as the defaults of the table leave it (line 547: XIO_BAUD_115200, the
\* fifth rate of msg_baud); the flags off
cfgReset ==
    [ enable_cr |-> 0, enable_echo |-> 0, enable_flow_control |-> 0,
      usb_baud_rate |-> 5 ]

\* xio and the USB device: no change of baud rate pending, no control flag set;
\* ctrl is the set of the switches xio_ctrl() has turned on, baud the rate of
\* the device, applied the rates xio_set_baud() was given
xioReset ==
    [ usb_baud_rate |-> 5, usb_baud_flag |-> FALSE,
      ctrl |-> {}, baud |-> 5, applied |-> <<>> ]

NoHist == [op |-> "none", value |-> Float(0, 0, 0), units |-> "MILLIMETERS", wr |-> NoValue]

(***************************************************************************)
(* Walking the table: the classifiers applied to every index in turn       *)
(***************************************************************************)
InitTable ==
    /\ build \in Builds
    /\ units = "MILLIMETERS"
    /\ nv = NvReset
    /\ mem = <<>>
    /\ pc = "table"
    /\ ret = NoValue
    /\ hist = NoHist
    /\ sets = 0
    /\ stack = <<>>
    /\ nvl = NoList
    /\ log = <<>>
    /\ cfg = cfgReset
    /\ xio = xioReset

classify_index ==
    /\ pc = "table"
    /\ LET i == IF ret = NoValue THEN 0 ELSE nv.index + 1 IN
        /\ i < nv_index_max(build)
        /\ nv' = [nv EXCEPT !.index = i, !.token = Item(build, i).token]
        /\ ret' = [ single |-> nv_index_is_single(build, i),
                    group |-> nv_index_is_group(build, i),
                    lt_groups |-> nv_index_lt_groups(build, i) ]
    /\ UNCHANGED <<cfg, xio, build, units, mem, pc, hist, sets, stack, nvl, log>>

NextTable == classify_index

SpecTable == InitTable /\ [][NextTable]_vars

(***************************************************************************)
(* Commands: a token is resolved, its set or get function is called, and   *)
(* the response is rendered, which passes a float through                  *)
(* preprocess_float.                                                       *)
(***************************************************************************)
MaxSets == 1

\* The values a command sets: 1.0, -2.5, 0.1, FLT_MAX, the least subnormal,
\* a NaN, +infinity, -infinity
Values ==
    { Float(0, 127, 0), Float(1, 128, 2097152), Float(0, 123, 5033165),
      Float(0, 254, 8388607), Float(0, 0, 1),
      Float(0, 255, 4194304), Float(0, 255, 0), Float(1, 255, 0) }

\* The parameters the commands address: three written by set_flu (an axis travel,
\* an offset, a system setting) and two by set_flt (with and without F_CONVERT)
CmdTokens ==
    { <<"x","t","m">>, <<"g","5","5","y">>, <<"c","t">>,
      <<"a","r","a">>, <<"a","t","m">> }

\* The builds the commands run on: both platforms of the full-featured build
RunBuilds ==
    { b \in Builds : /\ b.MOTORS = 4 /\ b.D_IN_CHANNELS = 9
                     /\ b.USER_DATA /\ b.DIAGNOSTIC_PARAMETERS
                     /\ b.TEXT_MODE /\ b.HELP_SCREENS }

CmdIndexes(b) == { i \in 0..(nv_index_max(b) - 1) : Item(b, i).token \in CmdTokens }

Init ==
    /\ build \in RunBuilds
    /\ units \in UnitsModes
    /\ nv = NvReset
    /\ mem = <<>>
    /\ pc = "idle"
    /\ ret = NoValue
    /\ hist = NoHist
    /\ sets = 0
    /\ stack = <<>>
    /\ nvl = NoList
    /\ log = <<>>
    /\ cfg = cfgReset
    /\ xio = xioReset

\* canonical_machine.cpp, cm_set_units_mode(): G20 / G21
cm_set_units_mode ==
    /\ pc = "idle"
    /\ \E u \in UnitsModes : u # units /\ units' = u
    /\ UNCHANGED <<cfg, xio, build, nv, mem, pc, ret, hist, sets, stack, nvl, log>>

\* token=value arrives: the token is resolved and the value parsed into the nvObj
cmd_set ==
    /\ pc = "idle"
    /\ sets < MaxSets
    /\ \E i \in CmdIndexes(build), v \in Values :
        nv' = [NvReset EXCEPT !.index = i, !.token = Item(build, i).token,
                              !.value = v, !.valuetype = "TYPE_FLOAT"]
    /\ pc' = "set"
    /\ sets' = sets + 1
    /\ UNCHANGED <<cfg, xio, build, units, mem, ret, hist, stack, nvl, log>>

\* the bare token arrives
cmd_get ==
    /\ pc = "idle"
    /\ \E i \in CmdIndexes(build) :
        nv' = [NvReset EXCEPT !.index = i, !.token = Item(build, i).token]
    /\ pc' = "get"
    /\ UNCHANGED <<cfg, xio, build, units, mem, ret, hist, sets, stack, nvl, log>>

Written(by) == [index |-> nv.index, value |-> nv.value, units |-> units, by |-> by]

call_set_flu ==
    /\ pc = "set"
    /\ Item(build, nv.index).set = "set_flu"
    /\ LET r == set_flu(build, units, nv, mem) IN
        /\ nv' = r.nv
        /\ mem' = r.mem
        /\ ret' = r.ret
    /\ hist' = [op |-> "set_flu", value |-> nv.value, units |-> units, wr |-> Written("set_flu")]
    /\ pc' = "print"
    /\ UNCHANGED <<cfg, xio, build, units, sets, stack, nvl, log>>

call_set_flt ==
    /\ pc = "set"
    /\ Item(build, nv.index).set = "set_flt"
    /\ LET r == set_flt(build, units, nv, mem) IN
        /\ nv' = r.nv
        /\ mem' = r.mem
        /\ ret' = r.ret
    /\ hist' = [op |-> "set_flt", value |-> nv.value, units |-> units, wr |-> Written("set_flt")]
    /\ pc' = "print"
    /\ UNCHANGED <<cfg, xio, build, units, sets, stack, nvl, log>>

call_get_flt ==
    /\ pc = "get"
    /\ Item(build, nv.index).get = "get_flt"
    /\ LET r == get_flt(build, nv, mem) IN
        /\ nv' = r.nv
        /\ ret' = r.ret
    /\ hist' = [hist EXCEPT !.op = "get_flt", !.value = nv.value, !.units = units]
    /\ pc' = "print"
    /\ UNCHANGED <<cfg, xio, build, units, mem, sets, stack, nvl, log>>

\* the response is rendered: a float value goes through preprocess_float
call_preprocess_float ==
    /\ pc = "print"
    /\ nv.valuetype = "TYPE_FLOAT"
    /\ nv' = preprocess_float(build, units, nv)
    /\ hist' = [hist EXCEPT !.op = "preprocess_float", !.value = nv.value, !.units = units]
    /\ pc' = "idle"
    /\ UNCHANGED <<cfg, xio, build, units, mem, ret, sets, stack, nvl, log>>

Next ==
    \/ cm_set_units_mode
    \/ cmd_set
    \/ cmd_get
    \/ call_set_flu
    \/ call_set_flt
    \/ call_get_flt
    \/ call_preprocess_float

Spec == Init /\ [][Next]_vars


(***************************************************************************)
(* nv_group_is_prefixed and the uber-group lists (lines 894-980)           *)
(***************************************************************************)
\* nv_group_is_prefixed without the test for "sr"
nv_group_is_prefixed_sys_only(group) ==
    IF group = <<"s", "y", "s">> THEN FALSE
    ELSE TRUE

\* nv_group_is_prefixed with no exception at all
nv_group_is_prefixed_always(group) == TRUE

nv_group_is_prefixed(group) ==
    IF group = <<"s", "r">> THEN FALSE
    ELSE IF group = <<"s", "y", "s">> THEN FALSE
    ELSE TRUE

\* config.h: the most objects a list may hold, NV_BODY_LEN - 1
NV_MAX_OBJECTS == 29

\* config.h: what nv_get_index() returns for a token the table does not have
NO_MATCH == 65535

\* The list of _do_motors: one of the five #if MOTORS == n blocks
\* _do_motors with the list of four motors in the builds of five and six
motors_list_four_at_most(b) ==
    IF b.MOTORS = 2 THEN << <<"1">>, <<"2">>, <<>> >>
    ELSE IF b.MOTORS = 3 THEN << <<"1">>, <<"2">>, <<"3">>, <<>> >>
    ELSE << <<"1">>, <<"2">>, <<"3">>, <<"4">>, <<>> >>

\* _do_motors with the list of six motors in every build
motors_list_all_six(b) ==
    << <<"1">>, <<"2">>, <<"3">>, <<"4">>, <<"5">>, <<"6">>, <<>> >>

motors_list(b) ==
    IF b.MOTORS = 2 THEN << <<"1">>, <<"2">>, <<>> >>
    ELSE IF b.MOTORS = 3 THEN << <<"1">>, <<"2">>, <<"3">>, <<>> >>
    ELSE IF b.MOTORS = 4 THEN << <<"1">>, <<"2">>, <<"3">>, <<"4">>, <<>> >>
    ELSE IF b.MOTORS = 5 THEN << <<"1">>, <<"2">>, <<"3">>, <<"4">>, <<"5">>, <<>> >>
    ELSE << <<"1">>, <<"2">>, <<"3">>, <<"4">>, <<"5">>, <<"6">>, <<>> >>

axes_list == << <<"x">>, <<"y">>, <<"z">>, <<"a">>, <<"b">>, <<"c">>, <<>> >>

offsets_list ==
    << <<"g","5","4">>, <<"g","5","5">>, <<"g","5","6">>, <<"g","5","7">>,
       <<"g","5","8">>, <<"g","5","9">>, <<"g","9","2">>, <<"g","2","8">>,
       <<"g","3","0">>, <<>> >>

inputs_list(b) ==
    IF b.D_IN_CHANNELS < 9
    THEN << <<"d","i","1">>, <<"d","i","2">>, <<"d","i","3">>, <<"d","i","4">>,
            <<"d","i","5">>, <<"d","i","6">>, <<"d","i","7">>, <<"d","i","8">>, <<>> >>
    ELSE << <<"d","i","1">>, <<"d","i","2">>, <<"d","i","3">>, <<"d","i","4">>,
            <<"d","i","5">>, <<"d","i","6">>, <<"d","i","7">>, <<"d","i","8">>,
            <<"d","i","9">>, <<>> >>

\* The list a list-based handler hands to _do_group_list
ListOf(b, fn) ==
    CASE fn = "_do_motors" -> motors_list(b)
      [] fn = "_do_axes" -> axes_list
      [] fn = "_do_offsets" -> offsets_list
      [] fn = "_do_inputs" -> inputs_list(b)

\* _do_all with the p1 group printed right after the sys group
do_all_body_p1_second ==
    << [op |-> "strcpy", arg |-> <<"s","y","s">>],
       [op |-> "get_grp", arg |-> <<>>],
       [op |-> "nv_print_list", arg |-> <<>>],
       [op |-> "strcpy", arg |-> <<"p","1">>],
       [op |-> "get_grp", arg |-> <<>>],
       [op |-> "nv_print_list", arg |-> <<>>],
       [op |-> "call", arg |-> "_do_motors"],
       [op |-> "call", arg |-> "_do_axes"],
       [op |-> "call", arg |-> "_do_offsets"] >>

\* _do_all printing the input groups as well
do_all_body_with_inputs ==
    << [op |-> "strcpy", arg |-> <<"s","y","s">>],
       [op |-> "get_grp", arg |-> <<>>],
       [op |-> "nv_print_list", arg |-> <<>>],
       [op |-> "call", arg |-> "_do_motors"],
       [op |-> "call", arg |-> "_do_axes"],
       [op |-> "call", arg |-> "_do_inputs"],
       [op |-> "strcpy", arg |-> <<"p","1">>],
       [op |-> "get_grp", arg |-> <<>>],
       [op |-> "nv_print_list", arg |-> <<>>],
       [op |-> "call", arg |-> "_do_offsets"] >>

\* The statements of _do_all (lines 984-995), in order
do_all_body ==
    << [op |-> "strcpy", arg |-> <<"s","y","s">>],
       [op |-> "get_grp", arg |-> <<>>],
       [op |-> "nv_print_list", arg |-> <<>>],
       [op |-> "call", arg |-> "_do_motors"],
       [op |-> "call", arg |-> "_do_axes"],
       [op |-> "strcpy", arg |-> <<"p","1">>],
       [op |-> "get_grp", arg |-> <<>>],
       [op |-> "nv_print_list", arg |-> <<>>],
       [op |-> "call", arg |-> "_do_offsets"] >>

\* the loop body with the list never printed
do_group_list_after_unprinted(s) ==
    CASE s = "nv_reset_nv_list" -> "strncpy"
      [] s = "strncpy" -> "nv_get_index"
      [] s = "nv_get_index" -> "nv_get_nvObj"
      [] s = "nv_get_nvObj" -> "test"
      [] s = "nv_print_list" -> "test"

\* the loop body with the list printed before the group is fetched
do_group_list_after_print_first(s) ==
    CASE s = "nv_reset_nv_list" -> "strncpy"
      [] s = "strncpy" -> "nv_get_index"
      [] s = "nv_get_index" -> "nv_print_list"
      [] s = "nv_print_list" -> "nv_get_nvObj"
      [] s = "nv_get_nvObj" -> "test"

\* The statements of the loop body of _do_group_list (lines 928-934): the one that
\* follows statement s, "test" being the loop test of the next round
do_group_list_after(s) ==
    CASE s = "nv_reset_nv_list" -> "strncpy"
      [] s = "strncpy" -> "nv_get_index"
      [] s = "nv_get_index" -> "nv_get_nvObj"
      [] s = "nv_get_nvObj" -> "nv_print_list"
      [] s = "nv_print_list" -> "test"

\* the loop test with <= for <
do_group_list_in_loop_inclusive(i) == i <= NV_MAX_OBJECTS

\* line 924: the loop goes on while i < NV_MAX_OBJECTS
do_group_list_in_loop(i) == i < NV_MAX_OBJECTS

\* config.cpp: the index of the first entry whose token is group followed by token
nv_get_index(b, group, token) ==
    LET str == group \o token
        hits == {i \in 0..(nv_index_max(b) - 1) : Item(b, i).token = str}
    IN  IF hits = {} THEN NO_MATCH
        ELSE CHOOSE i \in hits : \A j \in hits : i <= j

\* config.cpp: the loop of get_grp(), for (i = 0; nv_index_is_single(i); i++): the
\* indexes, in ascending order, whose entry has the parent's token as its group
get_grp_found(b, parent) ==
    SelectSeq([k \in 1..nv_index_max(b) |-> k - 1],
              LAMBDA i : nv_index_is_single(b, i) /\ Item(b, i).group = parent)

\* the objects after the parent once found has been put there: those beyond it
\* are left as they were
Overlay(found, kids) == found \o SubSeq(kids, Len(found) + 1, Len(kids))

\* config.cpp: get_grp() puts each entry whose group is the parent's token into the
\* next object after the parent
get_grp(b, l) == [l EXCEPT !.kids = Overlay(get_grp_found(b, l.token), l.kids)]

\* config.cpp: nv_get_nvObj() does nothing for an index out of range and calls the
\* entry's get function otherwise
nv_get_nvObj(b, l) ==
    IF l.index >= nv_index_max(b) THEN l
    ELSE IF Item(b, l.index).get = "get_grp" THEN get_grp(b, l)
    ELSE l

(***************************************************************************)
(* The uber-group handlers, statement by statement                         *)
(***************************************************************************)
Frame(fn, at, list, by) == [fn |-> fn, pc |-> at, list |-> list, i |-> 0, by |-> by]

\* Calling a handler: _do_motors, _do_axes, _do_offsets and _do_inputs build their
\* list and are in _do_group_list at once; _do_all starts at its first statement
Enter(b, fn) ==
    IF fn = "_do_all" THEN Frame("_do_all", "body", <<>>, fn)
    ELSE Frame("_do_group_list", "test", ListOf(b, fn), fn)

\* One thing done: by which function, what, with which token, in which round of
\* the loop, and the objects after the parent that a rendering shows
Event(fn, ev, tok, i, kids) == [fn |-> fn, ev |-> ev, tok |-> tok, i |-> i, kids |-> kids]

\* A handler is entered; for _do_group_list the event carries the list
Called(b, fn) ==
    Event(IF fn = "_do_all" THEN fn ELSE "_do_group_list", "call", <<fn>>, 0,
          IF fn = "_do_all" THEN <<>> ELSE ListOf(b, fn))

Top == stack[Len(stack)]

Pop == SubSeq(stack, 1, Len(stack) - 1)

SetTop(f) == [stack EXCEPT ![Len(stack)] = f]

\* The builds the handlers run on: every MOTORS and D_IN_CHANNELS
UberBuilds ==
    { b \in Builds : /\ b.USER_DATA /\ b.DIAGNOSTIC_PARAMETERS
                     /\ b.ARM /\ b.TEXT_MODE /\ b.HELP_SCREENS }

\* The tokens of the uber-group entries (lines 807-811)
UberTokens == { <<"m">>, <<"q">>, <<"o">>, <<"d","i">>, <<"$">> }

\* n tokens: the axes, over and over
Cycle(n) == [k \in 1..n |-> axes_list[((k - 1) % 6) + 1]]

\* Lists handed to _do_group_list directly: short ones with the sentinel (and with
\* entries after it), one with a token the table does not have, one of
\* NV_MAX_OBJECTS - 1 tokens and the sentinel, and lists with no sentinel among
\* the first NV_MAX_OBJECTS entries
TestLists ==
    { << <<>> >>,
      << <<"x">>, <<>> >>,
      << <<"p","1">>, <<"x">>, <<>>, <<"y">>, <<>> >>,
      << <<"z","z">>, <<"c">>, <<>> >>,
      Cycle(NV_MAX_OBJECTS - 1) \o << <<>> >>,
      Cycle(NV_MAX_OBJECTS),
      Cycle(NV_MAX_OBJECTS + 2) \o << <<>> >> }

\* list[i] as the loop test reads it; past the end of the array it is whatever
\* lies there
ReadList(list, i) == IF i < Len(list) THEN {list[i + 1]} ELSE {<<>>, <<"x">>}

InitUber ==
    /\ build \in UberBuilds
    /\ units = "MILLIMETERS"
    /\ nv = NvReset
    /\ mem = <<>>
    /\ pc = "uber"
    /\ ret = "none"
    /\ hist = NoHist
    /\ sets = 0
    /\ stack = <<>>
    /\ nvl = NoList
    /\ log = <<>>
    /\ cfg = cfgReset
    /\ xio = xioReset

\* An uber-group token arrives: the parser resets the list, resolves the token into
\* the first object and calls the entry's get function
cmd_uber ==
    /\ pc = "uber"
    /\ \E t \in UberTokens :
        LET i == nv_get_index(build, <<>>, t) IN
            /\ nvl' = [NoList EXCEPT !.token = t, !.index = i]
            /\ stack' = <<Enter(build, Item(build, i).get)>>
            /\ log' = << Event("parser", "nv_reset_nv_list", <<>>, 0, <<>>),
                          Called(build, Item(build, i).get) >>
    /\ pc' = "run"
    /\ UNCHANGED <<cfg, xio, build, units, nv, mem, ret, hist, sets>>

\* _do_group_list is called with a list of its own, the nvObj list holding what an
\* earlier command left
call_do_group_list ==
    /\ pc = "uber"
    /\ \E list \in TestLists :
        /\ stack' = <<Frame("_do_group_list", "test", list, "caller")>>
        /\ log' = <<Event("_do_group_list", "call", <<"caller">>, 0, list)>>
    /\ nvl' = [token |-> <<"h","o","m">>, index |-> 0, kids |-> <<0, 1, 2>>]
    /\ pc' = "run"
    /\ UNCHANGED <<cfg, xio, build, units, nv, mem, ret, hist, sets>>

InGroupList(s) == pc = "run" /\ stack # <<>> /\ Top.fn = "_do_group_list" /\ Top.pc = s

\* A handler returns: its caller goes on, or the command is done
Return(status) ==
    /\ stack' = Pop
    /\ ret' = status
    /\ pc' = IF Len(stack) = 1 THEN "done" ELSE pc

\* lines 924-927 and 936: the loop test, and the two returns
do_group_list_test ==
    /\ InGroupList("test")
    /\ IF do_group_list_in_loop(Top.i)
       THEN \E tok \in ReadList(Top.list, Top.i) :
            /\ log' = Append(log, Event("_do_group_list", "read", tok, Top.i, <<>>))
            /\ IF tok = <<>>
               THEN Return("STAT_COMPLETE")
               ELSE /\ stack' = SetTop([Top EXCEPT !.pc = "nv_reset_nv_list"])
                    /\ UNCHANGED <<cfg, xio, ret, pc>>
       ELSE /\ Return("STAT_COMPLETE")
            /\ UNCHANGED log
    /\ UNCHANGED <<cfg, xio, build, units, nv, mem, hist, sets, nvl>>

\* the statement after the current one; after the last the loop counts on
Advance ==
    LET s == do_group_list_after(Top.pc)
    IN  SetTop([Top EXCEPT !.pc = s, !.i = IF s = "test" THEN @ + 1 ELSE @])

\* line 928
do_group_list_reset ==
    /\ InGroupList("nv_reset_nv_list")
    /\ nvl' = NoList
    /\ log' = Append(log, Event("_do_group_list", "nv_reset_nv_list", <<>>, Top.i, <<>>))
    /\ stack' = Advance
    /\ UNCHANGED <<cfg, xio, build, units, nv, mem, pc, ret, hist, sets>>

\* lines 929-930
do_group_list_strncpy ==
    /\ InGroupList("strncpy")
    /\ \E tok \in ReadList(Top.list, Top.i) :
        /\ nvl' = [nvl EXCEPT !.token = tok]
        /\ log' = Append(log, Event("_do_group_list", "strncpy", tok, Top.i, <<>>))
    /\ stack' = Advance
    /\ UNCHANGED <<cfg, xio, build, units, nv, mem, pc, ret, hist, sets>>

\* line 931: the index is resolved with the empty group
do_group_list_get_index ==
    /\ InGroupList("nv_get_index")
    /\ nvl' = [nvl EXCEPT !.index = nv_get_index(build, <<>>, nvl.token)]
    /\ log' = Append(log, Event("_do_group_list", "nv_get_index", nvl.token, Top.i, <<>>))
    /\ stack' = Advance
    /\ UNCHANGED <<cfg, xio, build, units, nv, mem, pc, ret, hist, sets>>

\* line 933
do_group_list_get_nvObj ==
    /\ InGroupList("nv_get_nvObj")
    /\ nvl' = nv_get_nvObj(build, nvl)
    /\ log' = Append(log, Event("_do_group_list", "get", nvl.token, Top.i, <<>>))
    /\ stack' = Advance
    /\ UNCHANGED <<cfg, xio, build, units, nv, mem, pc, ret, hist, sets>>

\* line 934
do_group_list_print ==
    /\ InGroupList("nv_print_list")
    /\ log' = Append(log, Event("_do_group_list", "nv_print_list", nvl.token, Top.i, nvl.kids))
    /\ stack' = Advance
    /\ UNCHANGED <<cfg, xio, build, units, nv, mem, pc, ret, hist, sets, nvl>>

InAll(op) ==
    /\ pc = "run" /\ stack # <<>> /\ Top.fn = "_do_all"
    /\ Top.i < Len(do_all_body)
    /\ do_all_body[Top.i + 1].op = op

\* _do_all's frame counts the statements it has done
Step == SetTop([Top EXCEPT !.i = @ + 1])

\* lines 984 and 991
do_all_strcpy ==
    /\ InAll("strcpy")
    /\ nvl' = [nvl EXCEPT !.token = do_all_body[Top.i + 1].arg]
    /\ log' = Append(log, Event("_do_all", "strncpy", do_all_body[Top.i + 1].arg, 0, <<>>))
    /\ stack' = Step
    /\ UNCHANGED <<cfg, xio, build, units, nv, mem, pc, ret, hist, sets>>

\* lines 985 and 992
do_all_get_grp ==
    /\ InAll("get_grp")
    /\ nvl' = get_grp(build, nvl)
    /\ log' = Append(log, Event("_do_all", "get", nvl.token, 0, <<>>))
    /\ stack' = Step
    /\ UNCHANGED <<cfg, xio, build, units, nv, mem, pc, ret, hist, sets>>

\* lines 986 and 993
do_all_print ==
    /\ InAll("nv_print_list")
    /\ log' = Append(log, Event("_do_all", "nv_print_list", nvl.token, 0, nvl.kids))
    /\ stack' = Step
    /\ UNCHANGED <<cfg, xio, build, units, nv, mem, pc, ret, hist, sets, nvl>>

\* lines 988, 989 and 995: the handler is called; _do_all goes on when it returns
do_all_call ==
    /\ InAll("call")
    /\ log' = Append(log, Called(build, do_all_body[Top.i + 1].arg))
    /\ stack' = Append(Step, Enter(build, do_all_body[Top.i + 1].arg))
    /\ UNCHANGED <<cfg, xio, build, units, nv, mem, pc, ret, hist, sets, nvl>>

\* line 995: _do_all returns what its last call returned
do_all_return ==
    /\ pc = "run" /\ stack # <<>> /\ Top.fn = "_do_all"
    /\ Top.i >= Len(do_all_body)
    /\ stack' = Pop
    /\ pc' = "done"
    /\ UNCHANGED <<cfg, xio, build, units, nv, mem, ret, hist, sets, nvl, log>>

NextUber ==
    \/ cmd_uber
    \/ call_do_group_list
    \/ do_group_list_test
    \/ do_group_list_reset
    \/ do_group_list_strncpy
    \/ do_group_list_get_index
    \/ do_group_list_get_nvObj
    \/ do_group_list_print
    \/ do_all_strcpy
    \/ do_all_get_grp
    \/ do_all_print
    \/ do_all_call
    \/ do_all_return

SpecUber == InitUber /\ [][NextUber]_vars

\* The firmware is one thread that runs each handler to its end: a statement that
\* can run does run
SpecUberRun == SpecUber /\ WF_vars(NextUber)

(***************************************************************************)
(* nv_group_is_prefixed applied to the group of every entry, and to names  *)
(* no entry has                                                            *)
(***************************************************************************)
\* Group names beside those of the table: the two exceptions, strings next to
\* them, and the empty string
OtherGroups ==
    { <<"s","r">>, <<"s","y","s">>, <<>>, <<"s">>, <<"s","y">>, <<"s","r","s">>,
      <<"s","y","s","x">>, <<"S","R">>, <<"r","s">>, <<"x">>, <<"g","5","4">> }

InitGroups ==
    /\ build \in Builds
    /\ units = "MILLIMETERS"
    /\ nv = NvReset
    /\ mem = <<>>
    /\ pc = "groups"
    /\ ret = NoValue
    /\ hist = NoHist
    /\ sets = 0
    /\ stack = <<>>
    /\ nvl = NoList
    /\ log = <<>>
    /\ cfg = cfgReset
    /\ xio = xioReset

\* the group of the next entry of the table is asked about
prefixed_of_entry ==
    /\ pc = "groups"
    /\ LET i == IF ret = NoValue THEN 0 ELSE nv.index + 1 IN
        /\ i < nv_index_max(build)
        /\ nv' = [nv EXCEPT !.index = i, !.token = Item(build, i).token]
        /\ ret' = [ group |-> Item(build, i).group,
                    prefixed |-> nv_group_is_prefixed(Item(build, i).group) ]
    /\ UNCHANGED <<cfg, xio, build, units, mem, pc, hist, sets, stack, nvl, log>>

\* a group name is asked about as such
prefixed_of_name ==
    /\ pc = "groups"
    /\ ret = NoValue
    /\ \E g \in OtherGroups :
        ret' = [group |-> g, prefixed |-> nv_group_is_prefixed(g)]
    /\ pc' = "name"
    /\ UNCHANGED <<cfg, xio, build, units, nv, mem, hist, sets, stack, nvl, log>>

NextGroups == prefixed_of_entry \/ prefixed_of_name

SpecGroups == InitGroups /\ [][NextGroups]_vars

(***************************************************************************)
(* The program built again with another MOTORS: ret keeps the build before *)
(***************************************************************************)
InitMotors ==
    /\ build \in Builds
    /\ units = "MILLIMETERS"
    /\ nv = NvReset
    /\ mem = <<>>
    /\ pc = "build"
    /\ ret = NoValue
    /\ hist = NoHist
    /\ sets = 0
    /\ stack = <<>>
    /\ nvl = NoList
    /\ log = <<>>
    /\ cfg = cfgReset
    /\ xio = xioReset

change_MOTORS ==
    /\ pc \in {"build", "rebuilt"}
    /\ \E m \in 2..6 :
        /\ m # build.MOTORS
        /\ build' = [build EXCEPT !.MOTORS = m]
    /\ ret' = build
    /\ pc' = "rebuilt"
    /\ UNCHANGED <<cfg, xio, units, nv, mem, hist, sets, stack, nvl, log>>

NextMotors == change_MOTORS

SpecMotors == InitMotors /\ [][NextMotors]_vars

(***************************************************************************)
(* Communications functions of the AVR build (lines 1038-1109)             *)
(***************************************************************************)
\* The order of two floats as C compares them: a NaN compares false with all
FOrd(x) == IF x.s = 0 THEN x.e * 8388608 + x.f ELSE 0 - (x.e * 8388608 + x.f)

FGt(x, y) == ~IsNaN(x) /\ ~IsNaN(y) /\ FOrd(x) > FOrd(y)

\* (float)n for a byte n
ByteToFloat(n) ==
    IF n = 0 THEN Float(0, 0, 0)
    ELSE LET k == CHOOSE j \in 0..7 : 2^j <= n /\ n < 2^(j + 1) IN
             Float(0, 127 + k, (n - 2^k) * 2^(23 - k))

\* util.h: #define EPSILON ((float)0.00001), fp_NOT_ZERO(a) (fabs(a) > EPSILON)
fp_NOT_ZERO(x) == FGt([x EXCEPT !.s = 0], Float(0, 110, 2606508))

\* The integer part of a finite float below 2^31 in magnitude
Truncated(x) ==
    IF x.e < 127 THEN 0
    ELSE IF x.e <= 150 THEN (8388608 + x.f) \div 2^(150 - x.e)
    ELSE (8388608 + x.f) * 2^(x.e - 150)

\* (uint8_t)x.  C defines the conversion only when the integer part fits the
\* type; otherwise the behaviour is undefined and a build may saturate or keep
\* the low byte of a wider conversion
CastUint8(x) ==
    IF x.e < 255 /\ x.e <= 156 /\ (Truncated(x) = 0 \/ (x.s = 0 /\ Truncated(x) <= 255))
    THEN { Truncated(x) }
    ELSE {0, 255} \cup
         ( IF x.e <= 156
           THEN { IF x.s = 0 THEN Truncated(x) % 256
                  ELSE (256 - (Truncated(x) % 256)) % 256 }
           ELSE {} )

\* xio.h: FLOW_CONTROL_OFF, FLOW_CONTROL_XON, FLOW_CONTROL_RTS; line 1124 gives
\* the numbering
FLOW_CONTROL_RTS == 2

\* xio_ctrl(XIO_DEV_USB, flag): the switch is turned on or off
xio_ctrl(x, flag) ==
    CASE flag = "XIO_CRLF"    -> [x EXCEPT !.ctrl = @ \cup {"CRLF"}]
      [] flag = "XIO_NOCRLF"  -> [x EXCEPT !.ctrl = @ \ {"CRLF"}]
      [] flag = "XIO_ECHO"    -> [x EXCEPT !.ctrl = @ \cup {"ECHO"}]
      [] flag = "XIO_NOECHO"  -> [x EXCEPT !.ctrl = @ \ {"ECHO"}]
      [] flag = "XIO_XOFF"    -> [x EXCEPT !.ctrl = @ \cup {"XOFF"}]
      [] flag = "XIO_NOXOFF"  -> [x EXCEPT !.ctrl = @ \ {"XOFF"}]

\* Every function below gives the outcomes a call can have: one, unless a cast
\* of the value is undefined
Outcome(status, c, x, msgs) == [ret |-> status, cfg |-> c, xio |-> x, msgs |-> msgs]

_set_comm_helper(n, c, x, yes, no) ==
    Outcome("STAT_OK", c,
            IF fp_NOT_ZERO(n.value) THEN xio_ctrl(x, yes) ELSE xio_ctrl(x, no),
            <<>>)

set_ec(n, c, x) ==
    IF FGt(n.value, ByteToFloat(1))
    THEN { Outcome("STAT_INPUT_VALUE_UNSUPPORTED", c, x, <<>>) }
    ELSE { _set_comm_helper(n, [c EXCEPT !.enable_cr = byte], x, "XIO_CRLF", "XIO_NOCRLF") :
             byte \in CastUint8(n.value) }

set_ee(n, c, x) ==
    IF FGt(n.value, ByteToFloat(1))
    THEN { Outcome("STAT_INPUT_VALUE_UNSUPPORTED", c, x, <<>>) }
    ELSE { _set_comm_helper(n, [c EXCEPT !.enable_echo = byte], x, "XIO_ECHO", "XIO_NOECHO") :
             byte \in CastUint8(n.value) }

set_ex(n, c, x) ==
    IF FGt(n.value, ByteToFloat(FLOW_CONTROL_RTS))
    THEN { Outcome("STAT_INPUT_VALUE_UNSUPPORTED", c, x, <<>>) }
    ELSE { _set_comm_helper(n, [c EXCEPT !.enable_flow_control = byte], x,
                            "XIO_XOFF", "XIO_NOXOFF") :
             byte \in CastUint8(n.value) }

\* msg_baud, lines 1079-1086
msg_baud == <<"0", "9600", "19200", "38400", "57600", "115200", "230400">>

set_baud(n, c, x) ==
    { IF baud < 1 \/ baud > 6
      THEN Outcome("STAT_INPUT_VALUE_UNSUPPORTED", c, x,
                   << [text |-> "*** WARNING *** Unsupported baud rate specified", rate |-> ""] >>)
      ELSE Outcome("STAT_OK", c,
                   [x EXCEPT !.usb_baud_rate = baud, !.usb_baud_flag = TRUE],
                   << [text |-> "*** NOTICE *** Resetting baud rate to %s",
                       rate |-> msg_baud[baud + 1]] >>) :
      baud \in CastUint8(n.value) }

\* xio_set_baud(XIO_DEV_USB, baud)
xio_set_baud(x, baud) == [x EXCEPT !.baud = baud, !.applied = Append(@, baud)]

\* set_baud_callback that leaves the flag up
set_baud_callback_flag_kept(x) ==
    IF x.usb_baud_flag = FALSE THEN [ret |-> "STAT_NOOP", xio |-> x]
    ELSE [ret |-> "STAT_OK", xio |-> xio_set_baud(x, x.usb_baud_rate)]

set_baud_callback(x) ==
    IF x.usb_baud_flag = FALSE THEN [ret |-> "STAT_NOOP", xio |-> x]
    ELSE [ ret |-> "STAT_OK",
           xio |-> xio_set_baud([x EXCEPT !.usb_baud_flag = FALSE], x.usb_baud_rate) ]

\* config.cpp, get_ui8(): the byte the target of the entry points at
get_ui8(b, n, c) ==
    [ nv |-> [n EXCEPT !.value =
                  ByteToFloat(CASE Item(b, n.index).target = "cfg.enable_cr" -> c.enable_cr
                                [] Item(b, n.index).target = "cfg.enable_echo" -> c.enable_echo
                                [] Item(b, n.index).target = "cfg.enable_flow_control" ->
                                       c.enable_flow_control
                                [] Item(b, n.index).target = "cfg.usb_baud_rate" ->
                                       c.usb_baud_rate),
                     !.valuetype = "TYPE_INTEGER"],
      ret |-> "STAT_OK" ]

\* The set commands a run takes
MaxCalls == 2

\* The values given to ec, ee and ex: 0, 1, 2, 3, 0.5, 1.5, -1 and a NaN
FlagValues ==
    { Float(0, 0, 0), Float(0, 127, 0), Float(0, 128, 0), Float(0, 128, 4194304),
      Float(0, 126, 0), Float(0, 127, 4194304), Float(1, 127, 0), Float(0, 255, 4194304) }

\* The values given to baud: 0, 1, 3, 6, 6.5, 7, 257, -1 and a NaN
BaudValues ==
    { Float(0, 0, 0), Float(0, 127, 0), Float(0, 128, 4194304), Float(0, 129, 4194304),
      Float(0, 129, 5242880), Float(0, 129, 6291456), Float(0, 135, 32768),
      Float(1, 127, 0), Float(0, 255, 4194304) }

CommTokens == { <<"e","c">>, <<"e","e">>, <<"e","x">>, <<"b","a","u","d">> }

\* The AVR build with every feature
CommBuilds == { b \in RunBuilds : ~b.ARM }

CommIndexes(b) == { i \in 0..(nv_index_max(b) - 1) : Item(b, i).token \in CommTokens }

\* hist in these runs: the function called last, the object it was given, cfg, xio
\* and the messages as they were before the call, and of the calls of set_baud:
\*   pend  the value of the last one that returned STAT_OK with no callback since,
\*   last  the value of the last one that returned STAT_OK,
\*   rej   whether the last one had a value outside 1..6 and nothing was pending,
\*   was   pend as it was before the call
Called_(op, n, pend, last, rej) ==
    [ op |-> op, nv |-> n, cfg |-> cfg, xio |-> xio, log |-> log,
      pend |-> pend, last |-> last, rej |-> rej, was |-> pend ]

\* v is in the interval from 1 to 6
InBaudRange(v) == ~IsNaN(v) /\ ~FGt(ByteToFloat(1), v) /\ ~FGt(v, ByteToFloat(6))

InitComm ==
    /\ build \in CommBuilds
    /\ units = "MILLIMETERS"
    /\ nv = NvReset
    /\ mem = <<>>
    /\ pc = "comm"
    /\ ret = "none"
    /\ sets = 0
    /\ stack = <<>>
    /\ nvl = NoList
    /\ log = <<>>
    /\ cfg \in [ enable_cr : {0, 1}, enable_echo : {0}, enable_flow_control : {0, 2},
                 usb_baud_rate : {5} ]
    /\ xio = [xioReset EXCEPT !.ctrl = (IF cfg.enable_cr = 1 THEN {"CRLF"} ELSE {})
                                  \cup (IF cfg.enable_flow_control # 0 THEN {"XOFF"} ELSE {})]
    /\ hist = Called_("none", NvReset, <<>>, <<>>, FALSE)

\* the object the parser hands to the set function of entry i
Parsed(i, v) ==
    [NvReset EXCEPT !.index = i, !.token = Item(build, i).token,
                    !.value = v, !.valuetype = "TYPE_FLOAT"]

\* token=value for one of ec, ee, ex: the set function of the entry runs
call_set_ec ==
    /\ pc = "comm"
    /\ sets < MaxCalls
    /\ \E i \in CommIndexes(build), v \in FlagValues :
        /\ Item(build, i).set = "set_ec"
        /\ \E r \in set_ec(Parsed(i, v), cfg, xio) :
            /\ nv' = Parsed(i, v)
            /\ ret' = r.ret
            /\ cfg' = r.cfg
            /\ xio' = r.xio
            /\ log' = r.msgs
            /\ hist' = Called_("set_ec", Parsed(i, v), hist.pend, hist.last, hist.rej)
    /\ sets' = sets + 1
    /\ UNCHANGED <<build, units, mem, pc, stack, nvl>>

call_set_ee ==
    /\ pc = "comm"
    /\ sets < MaxCalls
    /\ \E i \in CommIndexes(build), v \in FlagValues :
        /\ Item(build, i).set = "set_ee"
        /\ \E r \in set_ee(Parsed(i, v), cfg, xio) :
            /\ nv' = Parsed(i, v)
            /\ ret' = r.ret
            /\ cfg' = r.cfg
            /\ xio' = r.xio
            /\ log' = r.msgs
            /\ hist' = Called_("set_ee", Parsed(i, v), hist.pend, hist.last, hist.rej)
    /\ sets' = sets + 1
    /\ UNCHANGED <<build, units, mem, pc, stack, nvl>>

call_set_ex ==
    /\ pc = "comm"
    /\ sets < MaxCalls
    /\ \E i \in CommIndexes(build), v \in FlagValues :
        /\ Item(build, i).set = "set_ex"
        /\ \E r \in set_ex(Parsed(i, v), cfg, xio) :
            /\ nv' = Parsed(i, v)
            /\ ret' = r.ret
            /\ cfg' = r.cfg
            /\ xio' = r.xio
            /\ log' = r.msgs
            /\ hist' = Called_("set_ex", Parsed(i, v), hist.pend, hist.last, hist.rej)
    /\ sets' = sets + 1
    /\ UNCHANGED <<build, units, mem, pc, stack, nvl>>

\* baud=value.  log holds the messages queued for the response to this command
call_set_baud ==
    /\ pc = "comm"
    /\ sets < MaxCalls
    /\ \E i \in CommIndexes(build), v \in BaudValues :
        /\ Item(build, i).set = "set_baud"
        /\ \E r \in set_baud(Parsed(i, v), cfg, xio) :
            /\ nv' = Parsed(i, v)
            /\ ret' = r.ret
            /\ cfg' = r.cfg
            /\ xio' = r.xio
            /\ log' = r.msgs
            /\ hist' = IF r.ret = "STAT_OK"
                       THEN [Called_("set_baud", Parsed(i, v), <<v>>, <<v>>, FALSE)
                                EXCEPT !.was = hist.pend]
                       ELSE Called_("set_baud", Parsed(i, v), hist.pend, hist.last,
                                    ~InBaudRange(v) /\ hist.pend = <<>>)
    /\ sets' = sets + 1
    /\ UNCHANGED <<build, units, mem, pc, stack, nvl>>

\* the main loop of the controller calls set_baud_callback
call_set_baud_callback ==
    /\ pc = "comm"
    /\ LET r == set_baud_callback(xio) IN
        /\ ret' = r.ret
        /\ xio' = r.xio
    /\ hist' = [Called_("set_baud_callback", hist.nv, <<>>, hist.last, hist.rej)
                   EXCEPT !.was = hist.pend]
    /\ UNCHANGED <<build, units, nv, mem, pc, sets, stack, nvl, log, cfg>>

\* the bare token baud
call_get_ui8 ==
    /\ pc = "comm"
    /\ \E i \in CommIndexes(build) :
        /\ Item(build, i).token = <<"b","a","u","d">>
        /\ LET r == get_ui8(build, [NvReset EXCEPT !.index = i,
                                                   !.token = Item(build, i).token], cfg) IN
            /\ nv' = r.nv
            /\ ret' = r.ret
    /\ hist' = Called_("get_ui8", hist.nv, hist.pend, hist.last, hist.rej)
    /\ log' = <<>>
    /\ UNCHANGED <<build, units, mem, pc, sets, stack, nvl, cfg, xio>>

\* ec, ee and ex
NextComm ==
    \/ call_set_ec
    \/ call_set_ee
    \/ call_set_ex

SpecComm == InitComm /\ [][NextComm]_vars

\* baud
NextBaud ==
    \/ call_set_baud
    \/ call_set_baud_callback
    \/ call_get_ui8

SpecBaud == InitComm /\ [][NextBaud]_vars

(***************************************************************************)
(* The member tokens of the uber-group handlers, resolved in every build   *)
(***************************************************************************)
InitMembers ==
    /\ build \in Builds
    /\ units = "MILLIMETERS"
    /\ nv = NvReset
    /\ mem = <<>>
    /\ pc = "members"
    /\ ret = "none"
    /\ hist = NoHist
    /\ sets = 0
    /\ stack = <<>>
    /\ nvl = NoList
    /\ log = <<>>
    /\ cfg = cfgReset
    /\ xio = xioReset

\* lines 930-932 for one token of the list of a handler: the tokens up to it are
\* not the sentinel, it is copied and looked up with no group prefix
resolve_member ==
    /\ pc = "members"
    /\ \E fn \in {"_do_motors", "_do_axes", "_do_offsets", "_do_inputs"} :
        \E k \in 1..Len(ListOf(build, fn)) :
            /\ k <= NV_MAX_OBJECTS
            /\ \A j \in 1..k : ListOf(build, fn)[j] # <<>>
            /\ nvl' = [NoList EXCEPT !.token = ListOf(build, fn)[k],
                                     !.index = nv_get_index(build, <<>>, ListOf(build, fn)[k])]
            /\ ret' = fn
    /\ pc' = "resolved"
    /\ UNCHANGED <<build, units, nv, mem, hist, sets, stack, log, cfg, xio>>

\* lines 984 and 991: the tokens _do_all copies itself, looked up the same way
resolve_direct ==
    /\ pc = "members"
    /\ \E k \in 1..Len(do_all_body) :
        /\ do_all_body[k].op = "strcpy"
        /\ nvl' = [NoList EXCEPT !.token = do_all_body[k].arg,
                                 !.index = nv_get_index(build, <<>>, do_all_body[k].arg)]
    /\ ret' = "_do_all"
    /\ pc' = "resolved"
    /\ UNCHANGED <<build, units, nv, mem, hist, sets, stack, log, cfg, xio>>

NextMembers == resolve_member \/ resolve_direct

SpecMembers == InitMembers /\ [][NextMembers]_vars

(***************************************************************************)
(* The table and its classifiers, checked while the table is walked        *)
(* (SpecTable): nv.index is the index just classified, ret the answers.    *)
(***************************************************************************)
Classified == pc = "table" /\ ret # NoValue

IsGroupMarker(item) == item.get = "get_grp" /\ item.set = "set_grp"

IsUberGroup(item) ==
    item.get \in {"_do_motors", "_do_axes", "_do_offsets", "_do_inputs", "_do_all"}

IsProperPrefix(s, t) == Len(s) < Len(t) /\ \A k \in 1..Len(s) : s[k] = t[k]

\* "se" and the two decimal digits of k
SlotToken(k) ==
    LET d == <<"0", "1", "2", "3", "4", "5", "6", "7", "8", "9">>
    IN  <<"s", "e", d[(k \div 10) + 1], d[(k % 10) + 1]>>

SlotTarget(k) == "sr.status_report_list[" \o ToString(k) \o "]"

IsSlot(item) ==
    /\ Len(item.token) = 4
    /\ item.token[1] = "s" /\ item.token[2] = "e"
    /\ \E k \in 0..99 : item.token = SlotToken(k)

\* C1: every index below nv_index_max() is exactly one of: a single, a group, an
\* uber-group (index >= NV_INDEX_START_UBER_GROUPS); the status-report slots included.
C1_ExactlyOneClass ==
    Classified =>
        LET uber == nv.index >= NV_INDEX_START_UBER_GROUPS(build)
        IN  /\ ret.single \/ ret.group \/ uber
            /\ ~(ret.single /\ ret.group)
            /\ ~(ret.single /\ uber)
            /\ ~(ret.group /\ uber)

\* C2: in every build nv_index_is_group(i) is true exactly at the group markers (the
\* entries got and set by get_grp/set_grp), the uber-group range holds exactly the
\* uber-group entries, and the table holds NV_COUNT_GROUPS group markers and
\* NV_COUNT_UBER_GROUPS uber-group entries.
C2_GroupsAreMarkers ==
    Classified =>
        LET n == nv_index_max(build)
            all == 0..(n - 1)
        IN  /\ ret.group <=> IsGroupMarker(Item(build, nv.index))
            /\ (nv.index >= NV_INDEX_START_UBER_GROUPS(build))
                   <=> IsUberGroup(Item(build, nv.index))
            /\ nv.index = n - 1 =>
                /\ Cardinality({i \in all : IsGroupMarker(Item(build, i))})
                       = NV_COUNT_GROUPS(build)
                /\ Cardinality({i \in all : IsUberGroup(Item(build, i))})
                       = NV_COUNT_UBER_GROUPS

C2_Witness ==
    /\ Classified
    /\ nv.index = nv_index_max(build) - 1
    /\ build.MOTORS = 6 /\ build.USER_DATA /\ build.DIAGNOSTIC_PARAMETERS
    /\ \E i \in 0..nv.index : nv_index_is_group(build, i) /\ Item(build, i).token = <<"6">>

\* C3: in every build, when one token is a proper prefix of another, the entry with
\* the longer token is at the lower index: no entry follows one whose token is a
\* proper prefix of its own.
C3_LongerTokenFirst ==
    Classified =>
        \A j \in 0..(nv.index - 1) :
            ~IsProperPrefix(Item(build, j).token, Item(build, nv.index).token)

\* C4: in every build no two entries of cfgArray carry the same token.
C4_TokensUnique ==
    Classified =>
        \A j \in 0..(nv.index - 1) : Item(build, j).token # Item(build, nv.index).token

C4_Witness ==
    /\ Classified
    /\ nv.index = nv_index_max(build) - 1
    /\ nv.token = <<"$">>

Target == Item(build, nv.index).target

AfterSetFlu(u) == pc = "print" /\ hist.op = "set_flu" /\ hist.units = u

AfterPreprocess == pc = "idle" /\ hist.op = "preprocess_float"

\* C6: in inches mode set_flu given v writes v * MM_PER_INCH to the target (25.4 for
\* 1.0), leaves that same value in nv.value, and returns STAT_OK.
C6_SetFluInches ==
    AfterSetFlu("INCHES") =>
        /\ MemRead(mem, Target) = FMulConst(hist.value, MM_PER_INCH(build))
        /\ Target \in DOMAIN mem
        /\ nv.value = MemRead(mem, Target)
        /\ hist.value = Float(0, 127, 0) => nv.value = Float(0, 131, 4928307)
        /\ ret = "STAT_OK"

C6_Witness ==
    /\ AfterSetFlu("INCHES")
    /\ hist.value = Float(0, 127, 0)
    /\ mem[Target] = Float(0, 131, 4928307)

\* C7: in millimeters mode set_flu writes the value it is given unchanged to the
\* target and leaves nv.value unchanged, whatever the value.
C7_SetFluMillimeters ==
    AfterSetFlu("MILLIMETERS") =>
        /\ Target \in DOMAIN mem
        /\ mem[Target] = hist.value
        /\ nv.value = hist.value

C7_Witness ==
    /\ AfterSetFlu("MILLIMETERS")
    /\ hist.value = Float(1, 128, 2097152)
    /\ mem[Target] = Float(1, 128, 2097152)

\* C8: preprocess_float leaves a NaN or an infinite nv.value unchanged, in either
\* units mode and with F_CONVERT set or clear.
C8_IllegalUnchanged ==
    (AfterPreprocess /\ (IsNaN(hist.value) \/ IsInf(hist.value))) => nv.value = hist.value

C8_Witness ==
    /\ AfterPreprocess
    /\ IsNaN(hist.value)
    /\ hist.units = "INCHES"
    /\ F_CONVERT(Item(build, nv.index).flags)
    /\ nv.value = hist.value

\* C9: preprocess_float multiplies nv.value by INCHES_PER_MM only when the entry has
\* F_CONVERT and the units mode is inches (1.0 becomes 1/25.4); otherwise nv.value is
\* unchanged; and it never changes the backing storage.
C9_PreprocessFloat ==
    /\ [](AfterPreprocess =>
            IF F_CONVERT(Item(build, nv.index).flags) /\ hist.units = "INCHES"
            THEN /\ nv.value = FMulConst(hist.value, INCHES_PER_MM(build))
                 /\ hist.value = Float(0, 127, 0) => nv.value = Float(0, 122, 2179717)
            ELSE nv.value = hist.value)
    /\ [][pc = "print" => mem' = mem]_vars

C9_Witness ==
    /\ AfterPreprocess
    /\ F_CONVERT(Item(build, nv.index).flags)
    /\ hist.units = "INCHES"
    /\ hist.value = Float(0, 127, 0)
    /\ nv.value = Float(0, 122, 2179717)
    /\ mem # <<>>

\* The ordinal of a finite float among the floats of its sign
Ordinal(x) == x.e * 8388608 + x.f

\* equal, or finite neighbours: at most one unit in the last place apart
WithinTolerance(x, y) ==
    \/ x = y
    \/ /\ x.s = y.s /\ x.e < 255 /\ y.e < 255
       /\ Ordinal(x) - Ordinal(y) \in {-1, 0, 1}

\* The value preprocessed was read from (or echoed for) an F_CONVERT entry that
\* set_flu wrote last, under the units mode it was written in
RoundTrip ==
    /\ AfterPreprocess
    /\ hist.wr # NoValue
    /\ hist.wr.by = "set_flu"
    /\ hist.wr.index = nv.index
    /\ hist.wr.units = hist.units
    /\ F_CONVERT(Item(build, nv.index).flags)

\* RoundTrip for either of the plain float setters
RoundTripPlain ==
    /\ AfterPreprocess
    /\ hist.wr # NoValue
    /\ hist.wr.by \in {"set_flt", "set_flu"}
    /\ hist.wr.index = nv.index
    /\ hist.wr.units = hist.units
    /\ F_CONVERT(Item(build, nv.index).flags)

\* C26: an F_CONVERT entry written through set_flt or set_flu is written through
\* set_flu, so that a value written in inches mode and then displayed in inches mode
\* is the value written (as near as C10 leaves it: to the last place, and short of
\* overflow).
C26_ConvertedWrittenBySetFlu ==
    /\ ( /\ pc = "print"
         /\ hist.op \in {"set_flt", "set_flu"}
         /\ F_CONVERT(Item(build, nv.index).flags) ) => hist.op = "set_flu"
    /\ ( /\ RoundTripPlain
         /\ hist.units = "INCHES"
         /\ ~IsInf(hist.wr.value) => ~IsInf(FMulConst(hist.wr.value, MM_PER_INCH(build))) )
       => WithinTolerance(nv.value, hist.wr.value)

\* C10 as stated: for an F_CONVERT entry written by set_flu with v, the stored value
\* read back and passed through preprocess_float under the same units mode is v:
\* exactly in millimeters mode, within tolerance in inches mode.
C10_RoundTrip ==
    RoundTrip =>
        IF hist.units = "MILLIMETERS" THEN nv.value = hist.wr.value
        ELSE WithinTolerance(nv.value, hist.wr.value)

\* C10 amended: the same, for the values v whose product v * MM_PER_INCH does not
\* overflow to infinity in inches mode.
C10_RoundTripInRange ==
    (RoundTrip /\ (hist.units = "INCHES" /\ ~IsInf(hist.wr.value)
                       => ~IsInf(FMulConst(hist.wr.value, MM_PER_INCH(build))))) =>
        IF hist.units = "MILLIMETERS" THEN nv.value = hist.wr.value
        ELSE WithinTolerance(nv.value, hist.wr.value)

C10_Witness ==
    /\ RoundTrip
    /\ hist.units = "INCHES"
    /\ hist.wr.value = Float(0, 123, 5033165)
    /\ WithinTolerance(nv.value, hist.wr.value)
    /\ MemRead(mem, Target) # hist.wr.value


(***************************************************************************)
(* The uber-group handlers, checked over their runs (SpecUber): log is     *)
(* what was done so far, ret what the finished handler returned.           *)
(***************************************************************************)
IsRendering(e) == e.ev = "nv_print_list"

\* the tokens rendered so far, in order
Rendered == [q \in 1..Len(SelectSeq(log, IsRendering)) |-> SelectSeq(log, IsRendering)[q].tok]

\* the call the command made
FirstCall == IF log[1].ev = "call" THEN log[1] ELSE log[2]

\* _do_group_list was what the command ran (directly or through a list-based
\* handler) and has returned
ListDone == pc = "done" /\ FirstCall.fn = "_do_group_list"

HasSentinel(list) ==
    \E k \in 1..Len(list) : k <= NV_MAX_OBJECTS /\ list[k] = <<>>

\* the tokens before the first sentinel
BeforeSentinel(list) ==
    LET k == CHOOSE k \in 1..Len(list) :
                 list[k] = <<>> /\ \A j \in 1..(k - 1) : list[j] # <<>>
    IN  SubSeq(list, 1, k - 1)

\* C11: for a list of k tokens followed by the sentinel, k < NV_MAX_OBJECTS,
\* _do_group_list renders exactly the k tokens, in list order, and returns
\* STAT_COMPLETE on reading the sentinel (six renderings for x,y,z,a,b,c).
C11_OneRenderingPerToken ==
    (ListDone /\ HasSentinel(FirstCall.kids)) =>
        /\ Rendered = BeforeSentinel(FirstCall.kids)
        /\ ret = "STAT_COMPLETE"
        /\ log[Len(log)].ev = "read" /\ log[Len(log)].tok = <<>>
        /\ FirstCall.tok = <<"_do_axes">> => Len(Rendered) = 6

C11_Witness ==
    /\ ListDone
    /\ FirstCall.tok = <<"_do_axes">>
    /\ Rendered = << <<"x">>, <<"y">>, <<"z">>, <<"a">>, <<"b">>, <<"c">> >>
    /\ ret = "STAT_COMPLETE"

\* The statements run for one list token, in the order of the loop body
RoundOrder ==
    <<"read", "nv_reset_nv_list", "strncpy", "nv_get_index", "get", "nv_print_list">>

\* C12: in _do_group_list the steps for each token happen in the order: reset of
\* the list, token copy, index resolution with the empty group, fetch, rendering;
\* and the steps of token i are all done before the reset for token i+1.
C12_StepsInOrder ==
    /\ \A p \in 1..Len(log) :
        (log[p].fn = "_do_group_list" /\ log[p].ev # "call") =>
            /\ p > 1
            /\ \E k \in 1..6 :
                /\ log[p].ev = RoundOrder[k]
                /\ IF k > 1
                   THEN /\ log[p - 1].fn = "_do_group_list"
                        /\ log[p - 1].ev = RoundOrder[k - 1]
                        /\ log[p - 1].i = log[p].i
                        /\ k > 2 => log[p].tok = log[p - (k - 1)].tok
                   ELSE IF log[p].i = 0
                        THEN log[p - 1].ev = "call" /\ log[p - 1].fn = "_do_group_list"
                        ELSE /\ log[p - 1].fn = "_do_group_list"
                             /\ log[p - 1].ev = "nv_print_list"
                             /\ log[p - 1].i = log[p].i - 1
    /\ InGroupList("nv_get_nvObj") =>
        \/ nvl.index = NO_MATCH /\ \A i \in 0..(nv_index_max(build) - 1) :
                                       Item(build, i).token # nvl.token
        \/ nvl.index < nv_index_max(build) /\ Item(build, nvl.index).token = nvl.token
    /\ InGroupList("strncpy") => nvl = NoList

C12_Witness ==
    /\ ListDone
    /\ Len(log) >= 13
    /\ log[8].ev = "read" /\ log[8].i = 1
    /\ log[9].ev = "nv_reset_nv_list"
    /\ log[7].ev = "nv_print_list" /\ log[7].i = 0 /\ log[7].kids # <<>>

NoSentinel(list) == Len(list) >= NV_MAX_OBJECTS /\ ~HasSentinel(list)

\* C13: _do_group_list always terminates; given a list with no sentinel among its
\* first NV_MAX_OBJECTS entries it processes exactly NV_MAX_OBJECTS tokens, never
\* reads entry NV_MAX_OBJECTS or beyond, and returns STAT_COMPLETE as it does at
\* the sentinel.
C13_StopsAtMaxObjects ==
    /\ [](\A p \in 1..Len(log) : log[p].ev = "read" => log[p].i < NV_MAX_OBJECTS)
    /\ []((ListDone /\ NoSentinel(FirstCall.kids)) =>
            /\ Len(Rendered) = NV_MAX_OBJECTS
            /\ Rendered = SubSeq(FirstCall.kids, 1, NV_MAX_OBJECTS)
            /\ log[Len(log)].ev = "nv_print_list"
            /\ ret = "STAT_COMPLETE")
    /\ <>(pc = "done")

C13_Witness ==
    /\ ListDone
    /\ NoSentinel(FirstCall.kids)
    /\ Len(FirstCall.kids) = NV_MAX_OBJECTS
    /\ Len(Rendered) = NV_MAX_OBJECTS
    /\ ret = "STAT_COMPLETE"


\* _do_all is what the command ran
AllRun == pc \in {"run", "done"} /\ Len(log) >= 2 /\ FirstCall.fn = "_do_all"

AllDone == AllRun /\ pc = "done"

IsHandlerCall(e) ==
    e.ev = "call" /\ e.tok \in {<<"_do_motors">>, <<"_do_axes">>, <<"_do_offsets">>, <<"_do_inputs">>}

\* what _do_all itself did: a group printed directly, or a handler called
IsAllStep(e) == (e.fn = "_do_all" /\ e.ev = "nv_print_list") \/ IsHandlerCall(e)

AllSteps == [q \in 1..Len(SelectSeq(log, IsAllStep)) |-> SelectSeq(log, IsAllStep)[q].tok]

IsPrefixOf(s, t) == Len(s) <= Len(t) /\ s = SubSeq(t, 1, Len(s))

\* C14 as stated: _do_all renders the sys group and the p1 group directly first and
\* only then calls the motors, axes and offsets handlers, in that order.
C14_DirectGroupsFirst ==
    AllRun =>
        IsPrefixOf(AllSteps, << <<"s","y","s">>, <<"p","1">>,
                                <<"_do_motors">>, <<"_do_axes">>, <<"_do_offsets">> >>)

\* C14 amended: _do_all renders the sys group directly, calls the motors and the
\* axes handlers, renders the p1 group directly, and calls the offsets handler last.
C14_SysMotorsAxesP1Offsets ==
    /\ AllRun =>
        IsPrefixOf(AllSteps, << <<"s","y","s">>, <<"_do_motors">>, <<"_do_axes">>,
                                <<"p","1">>, <<"_do_offsets">> >>)
    /\ AllDone => Len(AllSteps) = 5 /\ ret = "STAT_COMPLETE"

C14_Witness ==
    /\ AllDone
    /\ AllSteps = << <<"s","y","s">>, <<"_do_motors">>, <<"_do_axes">>,
                     <<"p","1">>, <<"_do_offsets">> >>

\* the token of motor group k
MotorToken(k) == << <<"1">>, <<"2">>, <<"3">>, <<"4">>, <<"5">>, <<"6">> >>[k]

\* The groups C15 names
AllGroups(b) ==
    { <<"s","y","s">>, <<"p","1">> }
        \cup { MotorToken(k) : k \in 1..b.MOTORS }
        \cup { <<"x">>, <<"y">>, <<"z">>, <<"a">>, <<"b">>, <<"c">> }
        \cup { <<"g","5","4">>, <<"g","5","5">>, <<"g","5","6">>, <<"g","5","7">>,
               <<"g","5","8">>, <<"g","5","9">>, <<"g","9","2">>, <<"g","2","8">>,
               <<"g","3","0">> }

\* C15: one _do_all renders each of sys, p1, the motor groups 1..MOTORS, the six axis
\* groups and the nine offset groups exactly once and no other group, 2 + MOTORS +
\* 15 renderings in all; the inputs handler is not called.
C15_EachGroupOnce ==
    /\ AllRun =>
        /\ \A q \in 1..Len(Rendered) : Rendered[q] \in AllGroups(build)
        /\ \A q, r \in 1..Len(Rendered) : Rendered[q] = Rendered[r] => q = r
        /\ \A p \in 1..Len(log) : ~(log[p].ev = "call" /\ log[p].tok = <<"_do_inputs">>)
    /\ AllDone =>
        /\ Len(Rendered) = 2 + build.MOTORS + 15
        /\ \A g \in AllGroups(build) : \E q \in 1..Len(Rendered) : Rendered[q] = g

C15_Witness ==
    /\ AllDone
    /\ build.MOTORS = 6
    /\ Len(Rendered) = 23
    /\ Rendered[7] = <<"6">>

\* The n-th digital input group, "di1" .. "di9"
InputToken(k) ==
    <<"d", "i", <<"1", "2", "3", "4", "5", "6", "7", "8", "9">>[k]>>

InputCount(b) == IF b.D_IN_CHANNELS < 9 THEN 8 ELSE 9

CallsOf(fn) == SelectSeq(log, LAMBDA e : e.ev = "call" /\ e.tok = <<fn>>)

\* C19: for every MOTORS in 2..6 _do_motors expands the tokens "1" .. "MOTORS" in
\* ascending order and then the empty sentinel, and nothing else; _do_inputs expands
\* di1 .. di8 when D_IN_CHANNELS < 9 and di1 .. di9 otherwise.
C19_ListsSizedToBuild ==
    pc \in {"run", "done"} =>
        /\ \A q \in 1..Len(CallsOf("_do_motors")) :
            CallsOf("_do_motors")[q].kids =
                [k \in 1..(build.MOTORS + 1) |->
                    IF k <= build.MOTORS THEN MotorToken(k) ELSE <<>>]
        /\ \A q \in 1..Len(CallsOf("_do_inputs")) :
            CallsOf("_do_inputs")[q].kids =
                [k \in 1..(InputCount(build) + 1) |->
                    IF k <= InputCount(build) THEN InputToken(k) ELSE <<>>]
        /\ (pc = "done" /\ FirstCall.tok = <<"_do_motors">>) =>
                Rendered = [k \in 1..build.MOTORS |-> MotorToken(k)]
        /\ (pc = "done" /\ FirstCall.tok = <<"_do_inputs">>) =>
                Rendered = [k \in 1..InputCount(build) |-> InputToken(k)]

C19_Witness ==
    /\ pc = "done"
    /\ build.MOTORS = 5
    /\ build.D_IN_CHANNELS = 9
    /\ \/ /\ FirstCall.tok = <<"_do_motors">>
          /\ Rendered = << <<"1">>, <<"2">>, <<"3">>, <<"4">>, <<"5">> >>
       \/ /\ FirstCall.tok = <<"_do_inputs">>
          /\ Len(Rendered) = 9
          /\ Rendered[9] = <<"d","i","9">>

\* C16: in every uber-group operation, _do_all included, the list is reset before
\* each group is fetched, so that no rendering (the direct sys and p1 ones in
\* particular) shows entries left over from a group fetched before.
C16_ResetBeforeEachFetch ==
    /\ \A p \in 1..Len(log) :
        log[p].ev = "get" =>
            \E r \in 1..(p - 1) :
                /\ log[r].ev = "nv_reset_nv_list"
                /\ \A q \in (r + 1)..(p - 1) : log[q].ev # "get"
    /\ \A p \in 1..Len(log) :
        log[p].ev = "nv_print_list" =>
            \A k \in 1..Len(log[p].kids) :
                Item(build, log[p].kids[k]).group = log[p].tok


\* the list has a token before its sentinel that the table does not have
Unresolved(tok) == nv_get_index(build, <<>>, tok) = NO_MATCH

RotaryAxes == { <<"a">>, <<"b">>, <<"c">> }

\* The groups of the coordinate offsets and of the stored positions
OffsetGroups ==
    { <<"g","5","4">>, <<"g","5","5">>, <<"g","5","6">>, <<"g","5","7">>, <<"g","5","8">>,
      <<"g","5","9">>, <<"g","9","2">>, <<"g","2","8">>, <<"g","3","0">> }

\* the entry belongs to a rotary axis: it is of group a, b or c, or it is the a, b
\* or c member of an offset group
IsRotary(item) ==
    \/ item.group \in RotaryAxes
    \/ /\ item.group \in OffsetGroups
       /\ \E ax \in RotaryAxes : item.token = item.group \o ax

\* C25: in every build no entry of cfgArray that belongs to a rotary axis (the
\* entries of groups a, b, c and the a, b, c members of g54..g59, g92, g28, g30)
\* has set_flu as its set function.
C25_RotaryNeverSetFlu ==
    (Classified /\ IsRotary(Item(build, nv.index))) =>
        Item(build, nv.index).set # "set_flu"

C25_Witness ==
    /\ Classified
    /\ nv.token = <<"g","3","0","c">>
    /\ IsRotary(Item(build, nv.index))
    /\ \E j \in 0..nv.index :
          /\ Item(build, j).token = <<"a","t","m">>
          /\ IsRotary(Item(build, j))
          /\ Item(build, j).set = "set_flt"
    /\ \E j \in 0..nv.index :
          /\ Item(build, j).token = <<"g","5","4","x">>
          /\ ~IsRotary(Item(build, j))
          /\ Item(build, j).set = "set_flu"

\* The token families numbered by motor.  Diagnostics: the group, and the target
\* around the motor number
DiagFamilies ==
    { [grp |-> <<"_","t","s">>, pre |-> "mr.target_steps[MOTOR_", post |-> "]"],
      [grp |-> <<"_","p","s">>, pre |-> "mr.position_steps[MOTOR_", post |-> "]"],
      [grp |-> <<"_","c","s">>, pre |-> "mr.commanded_steps[MOTOR_", post |-> "]"],
      [grp |-> <<"_","e","s">>, pre |-> "mr.encoder_steps[MOTOR_", post |-> "]"],
      [grp |-> <<"_","x","s">>, pre |-> "st_pre.mot[MOTOR_", post |-> "].corrected_steps"],
      [grp |-> <<"_","f","e">>, pre |-> "mr.following_error[MOTOR_", post |-> "]"] }

\* Motor parameters: what follows the motor number in the token, and the field
MotorFields(b) ==
    { [suffix |-> <<"m","a">>, field |-> "motor_map"],
      [suffix |-> <<"s","a">>, field |-> "step_angle"],
      [suffix |-> <<"t","r">>, field |-> "travel_rev"],
      [suffix |-> <<"m","i">>, field |-> "microsteps"],
      [suffix |-> <<"p","o">>, field |-> "polarity"],
      [suffix |-> <<"p","m">>, field |-> "power_mode"] }
    \cup (IF b.ARM THEN { [suffix |-> <<"p","l">>, field |-> "power_level"] } ELSE {})

HasToken(b, tok) == \E i \in 0..(nv_index_max(b) - 1) : Item(b, i).token = tok

\* C27: an entry whose token carries a motor number N (the motor parameters Nxx and
\* the diagnostics _tsN, _psN, _csN, _esN, _xsN, _feN) is backed by the element of
\* motor N, and each of these families has the token of every motor 1..MOTORS.
C27_MotorTokensBackedByTheirMotor ==
    Classified =>
        /\ \A fam \in DiagFamilies, N \in 1..6 :
            nv.token = fam.grp \o MotorToken(N) =>
                Item(build, nv.index).target = fam.pre \o MotorToken(N)[1] \o fam.post
        /\ \A fld \in MotorFields(build), N \in 1..6 :
            nv.token = MotorToken(N) \o fld.suffix =>
                Item(build, nv.index).target =
                    "st_cfg.mot[MOTOR_" \o MotorToken(N)[1] \o "]." \o fld.field
        /\ nv.index = nv_index_max(build) - 1 =>
            \A N \in 1..build.MOTORS :
                /\ \A fld \in MotorFields(build) :
                       HasToken(build, MotorToken(N) \o fld.suffix)
                /\ build.DIAGNOSTIC_PARAMETERS =>
                       \A fam \in DiagFamilies : HasToken(build, fam.grp \o MotorToken(N))

\* an entry with a value of its own: neither a group marker nor an uber-group
IsSingle(item) == ~IsGroupMarker(item) /\ ~IsUberGroup(item)

\* C29: in every build the group markers and the group strings of the single-valued
\* entries correspond one to one: every non-empty group of a single-valued entry is
\* the token of a group marker, and every group marker is the group of at least one
\* single-valued entry.
C29_MarkersMatchGroups ==
    Classified =>
        /\ (IsSingle(Item(build, nv.index)) /\ Item(build, nv.index).group # <<>>) =>
            \E j \in 0..(nv_index_max(build) - 1) :
                /\ IsGroupMarker(Item(build, j))
                /\ Item(build, j).token = Item(build, nv.index).group
        /\ IsGroupMarker(Item(build, nv.index)) =>
            \E j \in 0..(nv_index_max(build) - 1) :
                /\ IsSingle(Item(build, j))
                /\ Item(build, j).group = nv.token

(***************************************************************************)
(* nv_group_is_prefixed, checked over SpecGroups: ret is the group asked   *)
(* about and the answer.                                                   *)
(***************************************************************************)
Asked == pc \in {"groups", "name"} /\ ret # NoValue

\* C17: nv_group_is_prefixed returns false for "sr" and for "sys" and true for
\* every other group name.
C17_OnlySrAndSysUnprefixed ==
    Asked =>
        IF ret.group = <<"s","r">> \/ ret.group = <<"s","y","s">>
        THEN ret.prefixed = FALSE
        ELSE ret.prefixed = TRUE

C17_Witness ==
    /\ Asked
    /\ ret.group = <<"s","r">>
    /\ ret.prefixed = FALSE

\* C18: for every entry with a non-empty group g and token t, t begins with g if
\* and only if nv_group_is_prefixed(g) is true.
C18_TokensFollowPrefixRule ==
    (Asked /\ pc = "groups" /\ ret.group # <<>>) =>
        (ret.prefixed <=>
            /\ Len(ret.group) <= Len(nv.token)
            /\ \A k \in 1..Len(ret.group) : nv.token[k] = ret.group[k])

C18_Witness ==
    /\ Asked /\ pc = "groups"
    /\ ret.group = <<"s","y","s">>
    /\ nv.token = <<"j","a">>
    /\ ~ret.prefixed
    /\ \E j \in 0..nv.index :
           Item(build, j).group = <<"g","5","5">> /\ Item(build, j).token = <<"g","5","5","y">>


(***************************************************************************)
(* The effect of MOTORS, checked over SpecMotors: ret is the build before  *)
(* the change and build the one after.                                     *)
(***************************************************************************)
\* The entries of the table that are the group of a motor
MotorGroupEntries(b) ==
    Cardinality({ i \in 0..(nv_index_max(b) - 1) :
                    /\ Item(b, i).get = "get_grp"
                    /\ \E k \in 1..6 : Item(b, i).token = MotorToken(k) })

UberEntries(b) ==
    SubSeq(cfgTable[b], NV_INDEX_START_UBER_GROUPS(b) + 1, NV_INDEX_MAX(b))

\* What a change of MOTORS leaves alone
MotorsLeftAlone(old, new) ==
    /\ ListOf(new, "_do_axes") = ListOf(old, "_do_axes")
    /\ ListOf(new, "_do_offsets") = ListOf(old, "_do_offsets")
    /\ ListOf(new, "_do_inputs") = ListOf(old, "_do_inputs")
    /\ UberEntries(new) = UberEntries(old)
    /\ Len(UberEntries(new)) = NV_COUNT_UBER_GROUPS
    /\ NV_INDEX_MAX(new) - NV_INDEX_START_UBER_GROUPS(new)
         = NV_INDEX_MAX(old) - NV_INDEX_START_UBER_GROUPS(old)
    /\ NV_INDEX_START_GROUPS(new) - NV_INDEX_END_SINGLES(new)
         = NV_INDEX_START_GROUPS(old) - NV_INDEX_END_SINGLES(old)
    /\ NV_INDEX_START_GROUPS(new) - NV_INDEX_END_SINGLES(new) = NV_STATUS_REPORT_LEN
    /\ (NV_INDEX_START_UBER_GROUPS(new) - NV_INDEX_START_GROUPS(new))
         - (NV_INDEX_START_UBER_GROUPS(old) - NV_INDEX_START_GROUPS(old))
         = NV_COUNT_GROUPS(new) - NV_COUNT_GROUPS(old)

Warned ==
    log = << [text |-> "*** WARNING *** Unsupported baud rate specified", rate |-> ""] >>

\* C21: set_ec and set_ee given a value other than 0 and 1, set_ex given a value
\* other than 0, 1 and 2 (negative and fractional values included) return
\* STAT_INPUT_VALUE_UNSUPPORTED and leave the cfg field and the control state of
\* the device as they were.
C21_BadFlagRefused ==
    /\ ( /\ hist.op \in {"set_ec", "set_ee"}
         /\ nv.value \notin {ByteToFloat(0), ByteToFloat(1)} ) =>
            /\ ret = "STAT_INPUT_VALUE_UNSUPPORTED"
            /\ cfg = hist.cfg
            /\ xio.ctrl = hist.xio.ctrl
    /\ ( /\ hist.op = "set_ex"
         /\ nv.value \notin {ByteToFloat(0), ByteToFloat(1), ByteToFloat(2)} ) =>
            /\ ret = "STAT_INPUT_VALUE_UNSUPPORTED"
            /\ cfg = hist.cfg
            /\ xio.ctrl = hist.xio.ctrl

\* C22: set_baud given a value outside 1..6 returns STAT_INPUT_VALUE_UNSUPPORTED,
\* queues the warning, and leaves the stored rate and the flag as they were; a
\* set_baud_callback after it does not change the rate of the device.
C22_BadBaudRefused ==
    /\ (hist.op = "set_baud" /\ ~InBaudRange(nv.value)) =>
            /\ ret = "STAT_INPUT_VALUE_UNSUPPORTED"
            /\ Warned
            /\ xio.usb_baud_rate = hist.xio.usb_baud_rate
            /\ xio.usb_baud_flag = hist.xio.usb_baud_flag
            /\ cfg = hist.cfg
    /\ (hist.op = "set_baud_callback" /\ hist.rej) =>
            /\ xio.baud = hist.xio.baud
            /\ xio.applied = hist.xio.applied

\* v is one of 1, 2, .. 6
IsBaudCode(v) == \E k \in 1..6 : v = ByteToFloat(k)

\* C23: once set_baud has returned STAT_OK for a rate b of 1..6, the next
\* set_baud_callback gives b to the device, once, and returns STAT_OK (of two such
\* set_baud before it, the later b); a set_baud_callback with no set_baud that
\* returned STAT_OK since the one before returns STAT_NOOP and leaves the device alone.
C23_CallbackAppliesOnce ==
    hist.op = "set_baud_callback" =>
        /\ hist.was = <<>> =>
            /\ ret = "STAT_NOOP"
            /\ xio = hist.xio
        /\ (hist.was # <<>> /\ IsBaudCode(hist.was[1])) =>
            /\ ret = "STAT_OK"
            /\ xio.baud = Truncated(hist.was[1])
            /\ xio.applied = Append(hist.xio.applied, Truncated(hist.was[1]))
            /\ xio.usb_baud_flag = FALSE

\* set_baud(1), set_baud(3), then the callback: 3 reaches the device, 1 never does
C23_Witness ==
    /\ hist.op = "set_baud_callback"
    /\ hist.was = <<ByteToFloat(3)>>
    /\ sets = 2
    /\ hist.xio.usb_baud_flag
    /\ xio.applied = <<3>>
    /\ ret = "STAT_OK"

\* C30: after set_baud has returned STAT_OK for b, a get of baud returns b.
C30_GetBaudReturnsSet ==
    ( /\ hist.op = "get_ui8"
      /\ hist.last # <<>>
      /\ IsBaudCode(hist.last[1]) ) =>
        /\ ret = "STAT_OK"
        /\ nv.value = hist.last[1]


(***************************************************************************)
(* The member tokens, checked over SpecMembers: nvl is the token looked up *)
(* and the index found, ret the handler that passes it.                    *)
(***************************************************************************)
\* C28: in every build each token a handler (_do_motors, _do_axes, _do_offsets,
\* _do_inputs) or _do_all passes for expansion is the token of a group marker: looked
\* up with no group prefix it gives an index for which nv_index_is_group is true.
C28_MembersAreGroupMarkers ==
    pc = "resolved" =>
        /\ nvl.index # NO_MATCH
        /\ nvl.index < nv_index_max(build)
        /\ nv_index_is_group(build, nvl.index)
        /\ Item(build, nvl.index).token = nvl.token
        /\ Item(build, nvl.index).get = "get_grp"

C28_Witness ==
    /\ pc = "resolved"
    /\ ret = "_do_inputs"
    /\ build.D_IN_CHANNELS = 9
    /\ build.MOTORS = 2
    /\ ~build.USER_DATA
    /\ nvl.token = <<"d","i","9">>
    /\ nv_index_is_group(build, nvl.index)

=============================================================================
